---- MODULE Spec2Model ----
(***************************************************************************)
(* A model of the satnet-simulator core: the discrete-event scheduler      *)
(* (internal/engine), the router and the trial harness, the strategic      *)
(* oracle and the contradiction detector.                                  *)
(*                                                                         *)
(* Times and delays are integers.  In the scheduler and trial parts one    *)
(* unit is one tick of virtual time; in the oracle and detector parts a    *)
(* delay is counted in units of 0.0001 s, so that the code's 0.001         *)
(* comparison slack is Epsilon = 10 units and the factor 0.9 is exact on   *)
(* multiples of 10.                                                        *)
(***************************************************************************)
EXTENDS Integers, Sequences, FiniteSets, TLC

VARIABLES
    Now,        \* Simulation.Now
    events,     \* Simulation.events: sequence of [time, id, act]
    pc,         \* position of the caller of the scheduler: idle / running / returned
    until,      \* argument of the Run call in progress (or of the last one)
    executed,   \* history: the events executed, in order, as [id, time]
    accepted,   \* history: every event ever appended to the queue, as [id, time]
    nextId,     \* history: insertion sequence number of the next call
    lastOp,     \* history: the last scheduling call, [op, arg, id]
    runFrom,    \* history: Len(executed) when the Run call in progress began
    runFirstId, \* history: nextId when the Run call in progress began
    \* --- one trial of the experiment runner (runSingleTrial)
    tpc,            \* position in runSingleTrial
    pktI,           \* loop index i of the send-scheduling loop
    transitions,    \* DelayModel.transitions
    targeting,      \* Router.TargetingCfg
    routerStats,    \* Router.PacketsRouted / PacketsTargeted
    oracleCfg,      \* Oracle.Strategy / FlagStrategy
    oraclePackets,  \* Oracle.Packets: id -> PacketRecord
    oracleQueries,  \* Oracle.Queries
    lastAnswer,     \* the answer returned by the last Oracle.Answer call
    destReceived,   \* MockGroundStation.Received
    trace,          \* history: the calls made on the oracle and the destination
    \* --- StrategicOracle
    FlaggingStrat,      \* StrategicOracle.FlaggingStrat
    AnsweringStrat,     \* StrategicOracle.AnsweringStrat
    LowDelayPercentile, \* StrategicOracle.LowDelayPercentile, in percent
    GroundTruth,        \* StrategicOracle.GroundTruth: sequence of records
    flaggedPackets,     \* StrategicOracle.flaggedPackets: the ids mapped to true
    claimedMinDelays,   \* StrategicOracle.claimedMinDelays: id -> delay
    comparisonHistory,  \* StrategicOracle.comparisonHistory: <<id1, id2>> -> answer
    QueriesAnswered,    \* StrategicOracle.QueriesAnswered
    LiesTold,           \* StrategicOracle.LiesTold
    PacketsFlagged,     \* StrategicOracle.PacketsFlagged
    answers,            \* history: <<id1, id2>> -> the answers returned for that
                        \* query on known packets since the last Reset
    \* --- ContradictionDetector
    graph,              \* TransitivityChecker.graph: the set of edges <<i, j>>
    SuspicionScores,    \* TemporalConsistencyChecker.SuspicionScores, in 1/1000
    ResponseHistory,    \* CommitmentChecker.ResponseHistory: hash -> answer
    Contradictions,     \* ContradictionDetector.Contradictions
    processed,          \* number of ProcessResponse calls made
    lastCall,           \* history: the last ProcessResponse call and what it
                        \* returned and appended, with the history it started from
    strictClaims,       \* history: <<a, b>> for every answer "a lower than b"
                        \* processed since the last Reset
    PathDelays,         \* PhysicalConstraintChecker.PathDelays: path -> delay
    storedQueries,      \* history: the queries whose response was stored in
                        \* ResponseHistory since the last Reset
    lastPhysical,       \* history: the last call of CheckClaim or
                        \* CheckDelayBounds and what it returned
    \* --- ConfidenceTracker (BayesianTracker, SPRTTest)
    CurrentPHonest,     \* BayesianTracker.CurrentPHonest, in 1/1000
    QueryHistory,       \* BayesianTracker.QueryHistory
    sprtBounds,         \* SPRTTest.A and B, as their logarithms in 1/1000
    LogLR,              \* SPRTTest.LogLR, in 1/1000
    NQueries,           \* SPRTTest.NQueries
    Decision,           \* SPRTTest.Decision
    ContradictionsFound, \* ConfidenceTracker.ContradictionsFound
    QueriesExecuted,    \* ConfidenceTracker.QueriesExecuted
    provenSeen,         \* history: some result processed carried a
                        \* contradiction
    bayesTerminal,      \* history: number of updates since the last update
                        \* with a contradiction, - 1 before any (or since Reset)
    \* --- DelayModel
    dm,                 \* the DelayModel: its configuration, transitions
                        \* and initialised
    dmLast,             \* history: the last call on the delay model and
                        \* what it returned
    \* --- histories of the calls on the oracle and the detector
    lastAnswered,       \* the last call on the StrategicOracle, what it
                        \* returned and the state it was made in
    lastCycle,          \* the Cycle of the transitivity contradiction the
                        \* last ProcessResponse reported, if any
    preReset,           \* what the detector held at its last Reset
    \* --- execution loop of the verifier
    maxQueries,         \* VerificationConfig.MaxQueries
    stopReason,         \* why the execution loop stopped, "" while it runs
    \* --- Packet and PacketBatch (package network)
    batch,              \* PacketBatch.Packets
    sampled,            \* history: the calls of ShouldSample and Sample and
                        \* what they returned
    \* --- NetworkOracle and Verifier (package verification)
    networkOracle,      \* the NetworkOracle
    verifier,           \* the Verifier
    verification,       \* the VerificationResult of the last RunVerification
    \* --- Simulation.RunSteps
    steps               \* iterations the RunSteps call in progress has left

schedVars == <<Now, events, pc, until, executed, accepted, nextId, lastOp,
               runFrom, runFirstId>>

trialVars == <<tpc, pktI, transitions, targeting, routerStats, oracleCfg,
               oraclePackets, oracleQueries, lastAnswer, destReceived, trace>>

oracleVars == <<FlaggingStrat, AnsweringStrat, LowDelayPercentile, GroundTruth,
                flaggedPackets, claimedMinDelays, comparisonHistory,
                QueriesAnswered, LiesTold, PacketsFlagged, answers>>

detectorVars == <<graph, SuspicionScores, ResponseHistory, Contradictions,
                  processed, lastCall, strictClaims, PathDelays, storedQueries,
                  lastPhysical>>

beliefVars == <<CurrentPHonest, QueryHistory, sprtBounds, LogLR, NQueries,
                Decision, ContradictionsFound, QueriesExecuted, provenSeen,
                bayesTerminal>>

delayVars == <<dm, dmLast>>

logVars == <<lastAnswered, lastCycle, preReset>>

loopVars == <<maxQueries, stopReason>>

sampleVars == <<batch, sampled>>

verifierVars == <<networkOracle, verifier, verification>>

stepVars == <<steps>>

otherVars == <<loopVars, sampleVars, verifierVars, stepVars>>

vars == <<schedVars, trialVars, oracleVars, detectorVars, beliefVars, delayVars,
          logVars, otherVars>>

\* ------------------------------------------------------------------ bounds

MaxEvents == 3     \* scheduling calls made in one behaviour
MaxTime   == 2     \* largest value of until and of ScheduleAt's time

\* The delays passed to Schedule: the code takes any float64, negative too.
Delays == {0 - 1, 0, 1}
Times  == 0..MaxTime

\* The actions an event of the scheduler part can carry: do nothing, or
\* call Schedule(1, noop) from inside the event.
Noop  == [kind |-> "noop", arg |-> 0]
Spawn == [kind |-> "spawn", arg |-> 1]
SchedActions == {Noop, Spawn}

\* ---------------------------------------------------------------- helpers

SeqToSet(s) == {s[i] : i \in 1..Len(s)}

MinTimeOf(S) == CHOOSE t \in {e.time : e \in S} : \A e \in S : t <= e.time

\* sort.Slice(s.events, less-by-Time).  The sort is by Time only and
\* sort.Slice is not stable: every arrangement of the slice that is
\* non-decreasing in Time is a possible result.
RECURSIVE SortOutcomes(_)
SortOutcomes(S) ==
    IF S = {} THEN {<<>>}
    ELSE LET firsts == {e \in S : e.time = MinTimeOf(S)}
         IN UNION {{<<e>> \o r : r \in SortOutcomes(S \ {e})} : e \in firsts}

\* s.events = append(s.events, newEvent); sort.Slice(...)
AppendAndSort(q, ev) == SortOutcomes(SeqToSet(q) \cup {ev})

\* ScheduleAt's guard: absoluteTime < s.Now returns without enqueuing.
ScheduleAtRejectsNever(t, now) == FALSE
ScheduleAtRejects(t, now) == t < now

\* Run's loop exit: event.Time > until.
RunBreaksAtOrAfter(ev, u) == ev.time >= u
RunBreaks(ev, u) == ev.time > u

\* -------------------------------------------------------------- scheduler

SchedInit ==
    /\ Now = 0
    /\ events = <<>>
    /\ pc = "idle"
    /\ until = 0
    /\ executed = <<>>
    /\ accepted = {}
    /\ nextId = 1
    /\ lastOp = [op |-> "none", arg |-> 0, id |-> 0]
    /\ runFrom = 0
    /\ runFirstId = 1

\* Simulation.Schedule(delay, action), called from outside an event.
Schedule(delay, act) ==
    /\ pc \notin {"running", "stepping"}
    /\ nextId <= MaxEvents
    /\ LET ev == [time |-> Now + delay, id |-> nextId, act |-> act]
       IN /\ events' \in AppendAndSort(events, ev)
          /\ accepted' = accepted \cup {[id |-> ev.id, time |-> ev.time]}
    /\ nextId' = nextId + 1
    /\ lastOp' = [op |-> "Schedule", arg |-> delay, id |-> nextId]
    /\ pc' = "idle"
    /\ until' = 0
    /\ runFrom' = 0
    /\ runFirstId' = 1
    /\ UNCHANGED <<Now, executed>>

\* Simulation.ScheduleAt(absoluteTime, action), called from outside an event.
ScheduleAt(t, act) ==
    /\ pc \notin {"running", "stepping"}
    /\ nextId <= MaxEvents
    /\ IF ScheduleAtRejects(t, Now)
       THEN UNCHANGED <<events, accepted>>
       ELSE LET ev == [time |-> t, id |-> nextId, act |-> act]
            IN /\ events' \in AppendAndSort(events, ev)
               /\ accepted' = accepted \cup {[id |-> ev.id, time |-> ev.time]}
    /\ nextId' = nextId + 1
    /\ lastOp' = [op |-> "ScheduleAt", arg |-> t, id |-> nextId]
    /\ pc' = "idle"
    /\ until' = 0
    /\ runFrom' = 0
    /\ runFirstId' = 1
    /\ UNCHANGED <<Now, executed>>

\* Simulation.Run(until): entry.
RunBegin(u) ==
    /\ pc \notin {"running", "stepping"}
    /\ pc' = "running"
    /\ until' = u
    /\ runFrom' = Len(executed)
    /\ runFirstId' = nextId
    /\ UNCHANGED <<Now, events, executed, accepted, nextId, lastOp>>

\* An action whose Schedule call replaced the queue by the new event alone.
RunActionOverwriting(ev, rest, now) ==
    IF ev.act.kind = "spawn" /\ nextId <= MaxEvents
    THEN {<<[time |-> now + ev.act.arg, id |-> nextId, act |-> Noop]>>}
    ELSE {rest}

\* The event's action, run on the queue left after the pop, at time now.
\* Returns the set of possible queues (the sort inside Schedule chooses).
RunAction(ev, rest, now) ==
    IF ev.act.kind = "spawn" /\ nextId <= MaxEvents
    THEN AppendAndSort(rest, [time |-> now + ev.act.arg, id |-> nextId, act |-> Noop])
    ELSE {rest}

\* One iteration of Run's loop: pop the head, advance Now, run the action.
RunStep ==
    /\ pc = "running"
    /\ Len(events) > 0
    /\ ~RunBreaks(Head(events), until)
    /\ LET ev == Head(events)
           spawns == ev.act.kind = "spawn" /\ nextId <= MaxEvents
       IN /\ Now' = ev.time
          /\ executed' = Append(executed, [id |-> ev.id, time |-> ev.time])
          /\ events' \in RunAction(ev, Tail(events), ev.time)
          /\ accepted' = accepted \cup
                {[id |-> e.id, time |-> e.time] : e \in SeqToSet(events') \ SeqToSet(events)}
          /\ nextId' = IF spawns THEN nextId + 1 ELSE nextId
          /\ lastOp' = IF spawns
                       THEN [op |-> "Schedule", arg |-> ev.act.arg, id |-> nextId]
                       ELSE lastOp
    /\ UNCHANGED <<pc, until, runFrom, runFirstId>>

\* Run's loop ends: the queue is empty or its head is later than until.
RunReturn ==
    /\ pc = "running"
    /\ IF Len(events) = 0 THEN TRUE ELSE RunBreaks(Head(events), until)
    /\ pc' = "returned"
    /\ UNCHANGED <<Now, events, until, executed, accepted, nextId, lastOp,
                   runFrom, runFirstId>>

SchedNext ==
    \/ (\E d \in Delays, a \in SchedActions : Schedule(d, a)) /\ UNCHANGED <<trialVars, oracleVars, detectorVars, beliefVars, delayVars, logVars, otherVars>>
    \/ (\E t \in Times : ScheduleAt(t, Noop)) /\ UNCHANGED <<trialVars, oracleVars, detectorVars, beliefVars, delayVars, logVars, otherVars>>
    \/ (\E u \in Times : RunBegin(u)) /\ UNCHANGED <<trialVars, oracleVars, detectorVars, beliefVars, delayVars, logVars, otherVars>>
    \/ RunStep /\ UNCHANGED <<trialVars, oracleVars, detectorVars, beliefVars, delayVars, logVars, otherVars>>
    \/ RunReturn /\ UNCHANGED <<trialVars, oracleVars, detectorVars, beliefVars, delayVars, logVars, otherVars>>

\* the values of steps passed to RunSteps: the code takes any int
StepCounts == {0 - 1, 0, 1, 2}

\* Simulation.RunSteps(steps): entry, i = 0.
RunStepsBegin(n) ==
    /\ pc \notin {"running", "stepping"}
    /\ pc' = "stepping"
    /\ steps' = n
    /\ runFrom' = Len(executed)
    /\ runFirstId' = nextId
    /\ UNCHANGED <<Now, events, until, executed, accepted, nextId, lastOp>>

\* One iteration of RunSteps' loop: i < steps && len(s.events) > 0; pop the
\* head, advance Now, run the action; i++.  No test of the event's time.
RunStepsStep ==
    /\ pc = "stepping"
    /\ steps > 0
    /\ Len(events) > 0
    /\ LET ev == Head(events)
           spawns == ev.act.kind = "spawn" /\ nextId <= MaxEvents
       IN /\ Now' = ev.time
          /\ executed' = Append(executed, [id |-> ev.id, time |-> ev.time])
          /\ events' \in RunAction(ev, Tail(events), ev.time)
          /\ accepted' = IF spawns
                         THEN accepted \cup {[id |-> nextId, time |-> ev.time + ev.act.arg]}
                         ELSE accepted
          /\ nextId' = IF spawns THEN nextId + 1 ELSE nextId
          /\ lastOp' = IF spawns
                       THEN [op |-> "Schedule", arg |-> ev.act.arg, id |-> nextId]
                       ELSE lastOp
    /\ steps' = steps - 1
    /\ UNCHANGED <<pc, until, runFrom, runFirstId>>

\* RunSteps' loop ends: i reached steps or the queue is empty.
RunStepsReturn ==
    /\ pc = "stepping"
    /\ (steps <= 0 \/ Len(events) = 0)
    /\ pc' = "stepped"
    /\ UNCHANGED <<Now, events, until, executed, accepted, nextId, lastOp,
                   runFrom, runFirstId, steps>>

\* the scheduler driven through Schedule, ScheduleAt, Run and RunSteps
StepsNext ==
    \/ (\E d \in Delays, a \in SchedActions : Schedule(d, a)) /\ UNCHANGED <<trialVars, oracleVars, detectorVars, beliefVars, delayVars, logVars, otherVars>>
    \/ (\E t \in Times : ScheduleAt(t, Noop)) /\ UNCHANGED <<trialVars, oracleVars, detectorVars, beliefVars, delayVars, logVars, otherVars>>
    \/ (\E u \in Times : RunBegin(u)) /\ UNCHANGED <<trialVars, oracleVars, detectorVars, beliefVars, delayVars, logVars, otherVars>>
    \/ RunStep /\ UNCHANGED <<trialVars, oracleVars, detectorVars, beliefVars, delayVars, logVars, otherVars>>
    \/ RunReturn /\ UNCHANGED <<trialVars, oracleVars, detectorVars, beliefVars, delayVars, logVars, otherVars>>
    \/ (\E n \in StepCounts : RunStepsBegin(n)) /\ UNCHANGED <<trialVars, oracleVars, detectorVars, beliefVars, delayVars, logVars, loopVars, sampleVars, verifierVars>>
    \/ RunStepsStep /\ UNCHANGED <<trialVars, oracleVars, detectorVars, beliefVars, delayVars, logVars, loopVars, sampleVars, verifierVars>>
    \/ RunStepsReturn /\ UNCHANGED <<trialVars, oracleVars, detectorVars, beliefVars, delayVars, logVars, loopVars, sampleVars, verifierVars>>

\* ------------------------------------------------------------------ trial
\* runSingleTrial: a fresh simulation, delay model, router and oracle; the
\* sends are scheduled, the simulation is run, the oracle flags, and the
\* verifier queries the oracle.  In this part one time unit is 0.05 s.

TrialPackets == 2      \* config.NumPackets
MaxQueries   == 2      \* queries the verifier asks in one trial
Spacing      == 1      \* config.SimDuration / config.NumPackets
RunSlack     == 200    \* 10.0 s: sim.Run(config.SimDuration + 10.0)
OverheadMin  == 3      \* 0.15 s: overhead > 0.15 in Oracle.FlagPackets

SimDuration == TrialPackets * Spacing
PacketIds   == 0..(TrialPackets - 1)

\* Samples of the random draws (rand.Float64, rand.NormFloat64).
LegitSamples     == {1, 2}       \* DelayModel.GetLegitDelay
\* DelayModel.GetMaliciousDelay: MaliciousMin + rand.Float64() *
\* (MaliciousMax - MaliciousMin), over the configurations a trial is given;
\* 0 is the draw rand.Float64() = 0 with MaliciousMin = 0
MaliciousSamples == {0, 10, 210}
BaseSamples      == {1, 2}       \* DelayModel.sampleBaseDelay

\* The transition lists DelayModel.Initialise can have built.
TransitionLists ==
    {<<[time |-> 0, base |-> b]>> : b \in BaseSamples}
    \cup {<<[time |-> 0, base |-> 1], [time |-> 1, base |-> 2]>>}

TargetingConfigs ==
    {[mode |-> "NONE",    ids |-> {},  from |-> 0, to |-> 0],
     [mode |-> "RANDOM",  ids |-> {},  from |-> 0, to |-> 0],
     [mode |-> "BY_ID",   ids |-> {0}, from |-> 0, to |-> 0],
     [mode |-> "BY_TIME", ids |-> {},  from |-> 1, to |-> 1]}

\* verification.NewStrategicOracle(f, a): the lying strategy is derived.
NewStrategicOracle(f, a) ==
    [flag |-> f,
     strategy |-> IF f = "FLAG_SMART" /\ a = "ANSWER_SMART" THEN "SOPHISTICATED"
                  ELSE IF a = "ANSWER_RANDOM" THEN "RANDOM_LIES"
                  ELSE IF a = "ANSWER_SMART" THEN "MINIMISE_DELAY"
                  ELSE "HONEST"]

\* verification.NewNetworkOracle(strategy, p): no flagging strategy.
NewNetworkOracle(st) == [flag |-> "", strategy |-> st]

OracleConfigs ==
    {NewStrategicOracle(f, a) : f \in {"FLAG_RANDOM", "FLAG_SMART"},
                                a \in {"ANSWER_RANDOM", "ANSWER_SMART"}}
    \cup {NewNetworkOracle(st) : st \in {"HONEST", "TARGETED"}}

EmptyMap == [x \in {} |-> 0]

\* sort.Search(n, f): the smallest index in 0..n at which f is true,
\* by bisection (f(h) is tr[h + 1].time > t here).
RECURSIVE Search(_, _, _, _)
Search(i, j, tr, t) ==
    IF i < j
    THEN LET h == (i + j) \div 2
         IN IF ~(tr[h + 1].time > t) THEN Search(h + 1, j, tr, t)
                                     ELSE Search(i, h, tr, t)
    ELSE i

\* DelayModel.GetBaseDelay(t) on an initialised model.
GetBaseDelay(tr, t) ==
    LET idx == Search(0, Len(tr), tr, t)
    IN IF idx = 0 THEN tr[1].base ELSE tr[idx].base

\* DelayModel.ComputeTotalDelay(sendTime, isMalicious): the possible results.
ComputeTotalDelay(tr, sendTime, isMalicious) ==
    {[base |-> GetBaseDelay(tr, sendTime), legit |-> l, mal |-> m,
      total |-> GetBaseDelay(tr, sendTime) + l + m,
      minPossible |-> GetBaseDelay(tr, sendTime)] :
        l \in LegitSamples,
        m \in IF isMalicious THEN MaliciousSamples ELSE {0}}

\* Router.isTargeted(pkt, sendTime): the possible results.
IsTargeted(cfg, id, sendTime) ==
    IF cfg.mode = "RANDOM" THEN {TRUE, FALSE}
    ELSE IF cfg.mode = "BY_ID" THEN {id \in cfg.ids}
    ELSE IF cfg.mode = "BY_TIME" THEN {sendTime >= cfg.from /\ sendTime <= cfg.to}
    ELSE {FALSE}

SendAct(i) ==
    [kind |-> "send",
     arg |-> [pkt |-> i, sent |-> 0, base |-> 0, legit |-> 0, mal |-> 0,
              total |-> 0, minPossible |-> 0, targeted |-> FALSE]]

\* The closure Router.Forward schedules: it captures pkt, sendTime, delays
\* and isTargeted.
DeliverAct(i, sendTime, d, isT) ==
    [kind |-> "deliver",
     arg |-> [pkt |-> i, sent |-> sendTime, base |-> d.base, legit |-> d.legit,
              mal |-> d.mal, total |-> d.total, minPossible |-> d.minPossible,
              targeted |-> isT]]

\* The delay Router.Forward passes to sim.Schedule.
ForwardDelay(d) == d.total

\* The calls the delivery closure makes, in order: r.OnTransmission(info)
\* with ReceivedTime = sim.Now, then dest.Receive(sim, pkt, "").
DeliverCallsReceiveFirst(info, now) ==
    <<[what |-> "receive", pkt |-> info.pkt, at |-> now, sent |-> info.sent,
       total |-> info.total],
      [what |-> "record", pkt |-> info.pkt, at |-> now, sent |-> info.sent,
       total |-> info.total]>>
DeliverCalls(info, now) ==
    <<[what |-> "record", pkt |-> info.pkt, at |-> now, sent |-> info.sent,
       total |-> info.total],
      [what |-> "receive", pkt |-> info.pkt, at |-> now, sent |-> info.sent,
       total |-> info.total]>>

OracleCall(what) == [what |-> what, pkt |-> 0, at |-> 0, sent |-> 0, total |-> 0]

\* The TransmissionRecord the OnTransmission callback of runSingleTrial builds.
RecordOf(info) ==
    [ID |-> info.pkt, SentTime |-> info.sent, BaseDelay |-> info.base,
     LegitDelay |-> info.legit, MaliciousDelay |-> info.mal,
     ActualDelay |-> info.total, MinDelay |-> info.minPossible,
     WasDelayed |-> info.targeted, IsFlagged |-> FALSE]

\* Oracle.RecordTransmission: o.Packets[p.ID] = &p
RecordTransmission(pk, rec) ==
    [x \in DOMAIN pk \cup {rec.ID} |-> IF x = rec.ID THEN rec ELSE pk[x]]

\* The state outside a trial (the scheduler part leaves it alone).
TrialIdle ==
    /\ tpc = "none"
    /\ pktI = 0
    /\ transitions = <<>>
    /\ targeting = [mode |-> "NONE", ids |-> {}, from |-> 0, to |-> 0]
    /\ routerStats = [routed |-> 0, targeted |-> 0]
    /\ oracleCfg = [flag |-> "", strategy |-> "HONEST"]
    /\ oraclePackets = EmptyMap
    /\ oracleQueries = 0
    /\ lastAnswer = "none"
    /\ destReceived = 0
    /\ trace = <<>>

\* runSingleTrial up to the send-scheduling loop.
TrialInit ==
    /\ SchedInit
    /\ tpc = "schedule"
    /\ pktI = 0
    /\ transitions \in TransitionLists
    /\ targeting \in TargetingConfigs
    /\ routerStats = [routed |-> 0, targeted |-> 0]
    /\ oracleCfg \in OracleConfigs
    /\ oraclePackets = EmptyMap
    /\ oracleQueries = 0
    /\ lastAnswer = "none"
    /\ destReceived = 0
    /\ trace = <<>>

schedGhost == <<executed, accepted, lastOp, runFrom, runFirstId>>

\* One iteration of the loop: sim.Schedule(sendTime, send closure).
TrialSchedule ==
    /\ tpc = "schedule"
    /\ pktI < TrialPackets
    /\ events' \in AppendAndSort(events,
           [time |-> Now + pktI * Spacing, id |-> nextId, act |-> SendAct(pktI)])
    /\ nextId' = nextId + 1
    /\ pktI' = pktI + 1
    /\ UNCHANGED <<Now, pc, until, schedGhost, tpc, transitions, targeting,
                   routerStats, oracleCfg, oraclePackets, oracleQueries,
                   lastAnswer, destReceived, trace>>

\* sim.Run(config.SimDuration + 10.0): entry.
TrialRunBegin ==
    /\ tpc = "schedule"
    /\ pktI = TrialPackets
    /\ tpc' = "run"
    /\ pc' = "running"
    /\ until' = SimDuration + RunSlack
    /\ UNCHANGED <<Now, events, nextId, schedGhost, pktI, transitions, targeting,
                   routerStats, oracleCfg, oraclePackets, oracleQueries,
                   lastAnswer, destReceived, trace>>

\* Run's loop pops a send event: NewPacket(pktID, ..., sim.Now) and
\* router.Forward(sim, pkt, dest).
TrialSendEvent ==
    /\ tpc = "run" /\ pc = "running"
    /\ Len(events) > 0
    /\ ~RunBreaks(Head(events), until)
    /\ Head(events).act.kind = "send"
    /\ LET ev == Head(events)
           sendTime == ev.time
       IN /\ Now' = ev.time
          /\ \E isT \in IsTargeted(targeting, ev.act.arg.pkt, sendTime) :
             \E d \in ComputeTotalDelay(transitions, sendTime, isT) :
                /\ routerStats' = [routed |-> routerStats.routed + 1,
                                   targeted |-> routerStats.targeted
                                                  + (IF isT THEN 1 ELSE 0)]
                /\ events' \in AppendAndSort(Tail(events),
                       [time |-> sendTime + ForwardDelay(d), id |-> nextId,
                        act |-> DeliverAct(ev.act.arg.pkt, sendTime, d, isT)])
          /\ nextId' = nextId + 1
    /\ UNCHANGED <<pc, until, schedGhost, tpc, pktI, transitions, targeting,
                   oracleCfg, oraclePackets, oracleQueries, lastAnswer,
                   destReceived, trace>>

\* Run's loop pops a delivery event: the record goes to the observer
\* (oracle.RecordTransmission inside OnTransmission), then dest.Receive.
TrialDeliverEvent ==
    /\ tpc = "run" /\ pc = "running"
    /\ Len(events) > 0
    /\ ~RunBreaks(Head(events), until)
    /\ Head(events).act.kind = "deliver"
    /\ LET ev == Head(events)
       IN /\ Now' = ev.time
          /\ events' = Tail(events)
          /\ oraclePackets' = RecordTransmission(oraclePackets, RecordOf(ev.act.arg))
          /\ destReceived' = destReceived + 1
          /\ trace' = trace \o DeliverCalls(ev.act.arg, ev.time)
    /\ UNCHANGED <<pc, until, nextId, schedGhost, tpc, pktI, transitions,
                   targeting, routerStats, oracleCfg, oracleQueries, lastAnswer>>

\* sim.Run returns.
TrialRunReturn ==
    /\ tpc = "run" /\ pc = "running"
    /\ IF Len(events) = 0 THEN TRUE ELSE RunBreaks(Head(events), until)
    /\ pc' = "returned"
    /\ tpc' = "flag"
    /\ UNCHANGED <<Now, events, until, nextId, schedGhost, pktI, transitions,
                   targeting, routerStats, oracleCfg, oraclePackets,
                   oracleQueries, lastAnswer, destReceived, trace>>

\* The ActualDelay at index idx (from 0) of the packets sorted by ActualDelay.
RECURSIVE SortedDelayAt(_, _, _)
SortedDelayAt(pk, S, idx) ==
    LET m == CHOOSE x \in S : \A y \in S : pk[x].ActualDelay <= pk[y].ActualDelay
    IN IF idx = 0 THEN pk[m].ActualDelay ELSE SortedDelayAt(pk, S \ {m}, idx - 1)

\* fastThreshold of Oracle.FlagPackets: the delay at index int(n * 0.10).
FastThreshold(pk) ==
    LET n == Cardinality(DOMAIN pk)
        idx == n \div 10
    IN IF n > idx THEN SortedDelayAt(pk, DOMAIN pk, idx) ELSE 0

\* shouldFlag of Oracle.FlagPackets for one packet: the possible values.
ShouldFlag(cfg, p, fastThreshold) ==
    IF cfg.flag = "FLAG_RANDOM" THEN {TRUE, FALSE}
    ELSE IF cfg.flag = "FLAG_SMART"
    THEN {p.ActualDelay > fastThreshold /\ p.ActualDelay - p.MinDelay > OverheadMin}
    ELSE {cfg.strategy \in {"SOPHISTICATED", "TARGETED"}
            /\ p.ActualDelay > fastThreshold
            /\ p.ActualDelay - p.MinDelay > OverheadMin}

\* Oracle.FlagPackets(): the possible flag assignments.
FlagPackets(cfg, pk) ==
    {[x \in DOMAIN pk |-> [pk[x] EXCEPT !.IsFlagged = f[x]]] :
        f \in {g \in [DOMAIN pk -> BOOLEAN] :
                 \A x \in DOMAIN pk : g[x] \in ShouldFlag(cfg, pk[x], FastThreshold(pk))}}

\* Where runSingleTrial calls oracle.FlagPackets(): after sim.Run returned.
FlagPointDuringRun(p) == p \in {"run", "flag"}
FlagPoint(p) == p = "flag"

\* oracle.FlagPackets() in runSingleTrial.
TrialFlag ==
    /\ FlagPoint(tpc)
    /\ oraclePackets' \in FlagPackets(oracleCfg, oraclePackets)
    /\ trace' = Append(trace, OracleCall("flag"))
    /\ tpc' = IF tpc = "flag" THEN "verify" ELSE tpc
    /\ UNCHANGED <<schedVars, pktI, transitions, targeting, routerStats,
                   oracleCfg, oracleQueries, lastAnswer, destReceived>>

\* Oracle.Answer(q): the possible answers.
OracleAnswer(cfg, pk, q) ==
    IF q.Pkt1 \notin DOMAIN pk \/ q.Pkt2 \notin DOMAIN pk THEN {"Pkt1Lower"}
    ELSE LET p1 == pk[q.Pkt1]
             p2 == pk[q.Pkt2]
             truth == IF p2.MinDelay < p1.MinDelay THEN "Pkt2Lower" ELSE "Pkt1Lower"
             lie == IF truth = "Pkt1Lower" THEN "Pkt2Lower" ELSE "Pkt1Lower"
             byActual == IF p1.ActualDelay < p2.ActualDelay THEN "Pkt1Lower"
                         ELSE "Pkt2Lower"
         IN IF cfg.strategy = "RANDOM_LIES" THEN {truth, lie}
            ELSE IF cfg.strategy = "MINIMISE_DELAY" THEN {byActual}
            ELSE IF cfg.strategy = "SOPHISTICATED"
            THEN IF ~p1.WasDelayed /\ ~p2.WasDelayed THEN {truth}
                 ELSE IF p1.WasDelayed /\ p2.WasDelayed THEN {byActual}
                 ELSE IF p1.WasDelayed
                 THEN {IF p1.ActualDelay >= p2.ActualDelay THEN "Pkt2Lower" ELSE truth}
                 ELSE {IF p2.ActualDelay >= p1.ActualDelay THEN "Pkt1Lower" ELSE truth}
            ELSE IF cfg.strategy = "TARGETED"
            THEN IF ~p1.WasDelayed /\ ~p2.WasDelayed THEN {truth} ELSE {truth, lie}
            ELSE {truth}

\* One query of verifier.RunVerification: the verifier asks the oracle.
TrialQuery ==
    /\ tpc = "verify"
    /\ oracleQueries < MaxQueries
    /\ \E a \in PacketIds, b \in PacketIds :
          lastAnswer' \in OracleAnswer(oracleCfg, oraclePackets, [Pkt1 |-> a, Pkt2 |-> b])
    /\ oracleQueries' = oracleQueries + 1
    /\ trace' = Append(trace, OracleCall("query"))
    /\ UNCHANGED <<schedVars, tpc, pktI, transitions, targeting, routerStats,
                   oracleCfg, oraclePackets, destReceived>>

\* verifier.RunVerification returns; the trial result is built.
TrialDone ==
    /\ tpc = "verify"
    /\ tpc' = "done"
    /\ UNCHANGED <<schedVars, pktI, transitions, targeting, routerStats,
                   oracleCfg, oraclePackets, oracleQueries, lastAnswer,
                   destReceived, trace>>

TrialNext ==
    \/ TrialSchedule /\ UNCHANGED <<oracleVars, detectorVars, beliefVars, delayVars, logVars, otherVars>>
    \/ TrialRunBegin /\ UNCHANGED <<oracleVars, detectorVars, beliefVars, delayVars, logVars, otherVars>>
    \/ TrialSendEvent /\ UNCHANGED <<oracleVars, detectorVars, beliefVars, delayVars, logVars, otherVars>>
    \/ TrialDeliverEvent /\ UNCHANGED <<oracleVars, detectorVars, beliefVars, delayVars, logVars, otherVars>>
    \/ TrialRunReturn /\ UNCHANGED <<oracleVars, detectorVars, beliefVars, delayVars, logVars, otherVars>>
    \/ TrialFlag /\ UNCHANGED <<oracleVars, detectorVars, beliefVars, delayVars, logVars, otherVars>>
    \/ TrialQuery /\ UNCHANGED <<oracleVars, detectorVars, beliefVars, delayVars, logVars, otherVars>>
    \/ TrialDone /\ UNCHANGED <<oracleVars, detectorVars, beliefVars, delayVars, logVars, otherVars>>



\* ------------------------------------------------------- StrategicOracle
\* Delays are in units of 0.0001 s.

Epsilon == 10                \* 0.001 s: the slack of the delay comparisons
MaxOracleQueries == 3        \* AnswerComparison calls between two resets

KnownIds == {1, 2, 3}
QueryIds == KnownIds \cup {0}        \* 0: an id never transmitted
QueryPairs == QueryIds \X QueryIds

Rec(id, min, actual, delayed) ==
    [PacketID |-> id, MinDelay |-> min, ActualDelay |-> actual, WasDelayed |-> delayed]

\* The ground truths a simulation can have left in the oracle: an untargeted
\* fast packet, an untargeted slow one and a targeted one whose observed
\* delay is the largest although its minimum is the smallest; and one with
\* two packets that the 0.001 slack cannot tell apart.
GroundTruths ==
    {<<Rec(1, 200, 300, FALSE), Rec(2, 500, 600, FALSE), Rec(3, 200, 1500, TRUE)>>,
     <<Rec(1, 300, 1400, TRUE), Rec(2, 305, 400, FALSE), Rec(3, 800, 900, FALSE)>>}

FlaggingStrategies  == {"FlagNone", "FlagRandom", "FlagLowDelay", "FlagActualDelayed"}
AnsweringStrategies == {"AnswerHonest", "AnswerRandom", "AnswerClaimLowerObserved",
                        "AnswerConsistent"}
ComparisonResults   == {"Packet1Faster", "Packet2Faster", "PacketsEqual"}

NoAnswers == [q \in QueryPairs |-> {}]

\* The oracle part's state while another part runs.
OracleIdle ==
    /\ FlaggingStrat = "FlagNone"
    /\ AnsweringStrat = "AnswerHonest"
    /\ LowDelayPercentile = 10
    /\ GroundTruth = <<>>
    /\ flaggedPackets = {}
    /\ claimedMinDelays = EmptyMap
    /\ comparisonHistory = EmptyMap
    /\ QueriesAnswered = 0
    /\ LiesTold = 0
    /\ PacketsFlagged = 0
    /\ answers = NoAnswers

\* NewStrategicOracle(flagStrat, answerStrat, ...), after the simulation has
\* delivered its records (RecordTransmission appends each).
OracleInit ==
    /\ FlaggingStrat \in FlaggingStrategies
    /\ AnsweringStrat \in AnsweringStrategies
    /\ LowDelayPercentile \in IF FlaggingStrat = "FlagLowDelay" THEN {10, 50} ELSE {10}
    /\ GroundTruth \in GroundTruths
    /\ flaggedPackets = {}
    /\ claimedMinDelays = EmptyMap
    /\ comparisonHistory = EmptyMap
    /\ QueriesAnswered = 0
    /\ LiesTold = 0
    /\ PacketsFlagged = 0
    /\ answers = NoAnswers

\* StrategicOracle.FindRecordByID if it returned the first record for an id
\* that no record has.
FindRecordByIDFirst(gt, id) ==
    IF \E i \in 1..Len(gt) : gt[i].PacketID = id
    THEN CHOOSE i \in 1..Len(gt) :
            gt[i].PacketID = id /\ \A j \in 1..(i - 1) : gt[j].PacketID # id
    ELSE 1

\* StrategicOracle.FindRecordByID: the index of the first record with that
\* id, 0 for nil.
FindRecordByID(gt, id) ==
    IF \E i \in 1..Len(gt) : gt[i].PacketID = id
    THEN CHOOSE i \in 1..Len(gt) :
            gt[i].PacketID = id /\ \A j \in 1..(i - 1) : gt[j].PacketID # id
    ELSE 0

\* StrategicOracle.flagLowDelayPackets: the index sets that can be the first
\* threshold records of the slice sorted by ActualDelay (sort.Slice, ties in
\* any order).
LowDelayIndexSets(gt, pct) ==
    LET threshold == (Len(gt) * pct) \div 100
    IN {I \in SUBSET (1..Len(gt)) :
          /\ Cardinality(I) = threshold
          /\ \A x \in I : \A y \in (1..Len(gt)) \ I :
                gt[x].ActualDelay <= gt[y].ActualDelay}

\* StrategicOracle.FlagPackets: the index sets of the records it can flag.
FlaggedIndexSets(strat, gt, pct) ==
    IF strat = "FlagNone" THEN {{}}
    ELSE IF strat = "FlagRandom" THEN SUBSET (1..Len(gt))
    ELSE IF strat = "FlagLowDelay" THEN LowDelayIndexSets(gt, pct)
    ELSE {{i \in 1..Len(gt) : gt[i].WasDelayed}}

\* StrategicOracle.FlagPackets()
OracleFlagPackets ==
    /\ \E I \in FlaggedIndexSets(FlaggingStrat, GroundTruth, LowDelayPercentile) :
          /\ flaggedPackets' = {GroundTruth[i].PacketID : i \in I}
          /\ PacketsFlagged' = Cardinality(I)
    /\ UNCHANGED <<FlaggingStrat, AnsweringStrat, LowDelayPercentile, GroundTruth,
                   claimedMinDelays, comparisonHistory, QueriesAnswered, LiesTold,
                   answers>>

\* The three-way comparison with slack used by computeTruth,
\* answerClaimLowerObserved and answerConsistent.
CompareDelays(d1, d2) ==
    IF d1 < d2 - Epsilon THEN "Packet1Faster"
    ELSE IF d2 < d1 - Epsilon THEN "Packet2Faster"
    ELSE "PacketsEqual"

\* StrategicOracle.computeTruth if it compared the observed delays
ComputeTruthObserved(rec1, rec2) == CompareDelays(rec1.ActualDelay, rec2.ActualDelay)

\* StrategicOracle.computeTruth
ComputeTruth(rec1, rec2) == CompareDelays(rec1.MinDelay, rec2.MinDelay)

\* StrategicOracle.reverseComparison
ReverseComparisonIdentity(c) == c
ReverseComparison(c) ==
    IF c = "Packet1Faster" THEN "Packet2Faster"
    ELSE IF c = "Packet2Faster" THEN "Packet1Faster"
    ELSE "PacketsEqual"

\* StrategicOracle.answerRandom: the possible results.
AnswerRandom == ComparisonResults

\* mutant of answerClaimLowerObserved: the first packet asked about is
\* always claimed faster
AnswerClaimFirstFaster(rec1, rec2) == "Packet1Faster"

\* StrategicOracle.answerClaimLowerObserved
AnswerClaimLowerObserved(rec1, rec2) ==
    CompareDelays(rec1.ActualDelay, rec2.ActualDelay)

\* The claimed minimum the oracle makes up for a packet it has none for:
\* ActualDelay * 0.9 if flagged, else MinDelay.
NewClaim(rec, flagged) ==
    IF rec.PacketID \in flagged THEN (rec.ActualDelay * 9) \div 10 ELSE rec.MinDelay

\* claimedMinDelays after answerConsistent(rec1, rec2) if it made up a claim
\* for both packets whether or not they have one.
ClaimsAfterRecomputed(claims, rec1, rec2, flagged) ==
    [x \in DOMAIN claims \cup {rec1.PacketID, rec2.PacketID} |->
        IF x = rec1.PacketID THEN NewClaim(rec1, flagged)
        ELSE IF x = rec2.PacketID THEN NewClaim(rec2, flagged)
        ELSE claims[x]]

\* claimedMinDelays after answerConsistent(rec1, rec2).
ClaimsAfter(claims, rec1, rec2, flagged) ==
    IF rec1.PacketID \in DOMAIN claims /\ rec2.PacketID \in DOMAIN claims
    THEN claims
    ELSE LET c1 == IF rec1.PacketID \in DOMAIN claims THEN claims
                   ELSE [x \in DOMAIN claims \cup {rec1.PacketID} |->
                            IF x = rec1.PacketID THEN NewClaim(rec1, flagged)
                            ELSE claims[x]]
         IN IF rec2.PacketID \in DOMAIN c1 THEN c1
            ELSE [x \in DOMAIN c1 \cup {rec2.PacketID} |->
                     IF x = rec2.PacketID THEN NewClaim(rec2, flagged) ELSE c1[x]]

\* StrategicOracle.answerConsistent: its result.  The claims are read before
\* either is stored, so the second packet's claim is its own new or stored
\* one even when both records are the same packet.
AnswerConsistent(claims, rec1, rec2, flagged) ==
    LET claimed1 == IF rec1.PacketID \in DOMAIN claims THEN claims[rec1.PacketID]
                    ELSE NewClaim(rec1, flagged)
        claimed2 == IF rec2.PacketID \in DOMAIN claims THEN claims[rec2.PacketID]
                    ELSE NewClaim(rec2, flagged)
    IN CompareDelays(claimed1, claimed2)

\* The answers the strategy switch of AnswerComparison can produce.
StrategyAnswers(strat, claims, rec1, rec2, flagged) ==
    IF strat = "AnswerHonest" THEN {ComputeTruth(rec1, rec2)}
    ELSE IF strat = "AnswerRandom" THEN AnswerRandom
    ELSE IF strat = "AnswerClaimLowerObserved" THEN {AnswerClaimLowerObserved(rec1, rec2)}
    ELSE {AnswerConsistent(claims, rec1, rec2, flagged)}

\* The key of comparisonHistory: fmt.Sprintf("%d-%d", id1, id2).  Two pairs
\* of integers never print to the same string, so the pair stands for it.
HistoryKey(id1, id2) == <<id1, id2>>

\* StrategicOracle.AnswerComparison(packetID1, packetID2)
AnswerComparison(id1, id2) ==
    /\ QueriesAnswered < MaxOracleQueries
    /\ QueriesAnswered' = QueriesAnswered + 1
    /\ LET i1 == FindRecordByID(GroundTruth, id1)
           i2 == FindRecordByID(GroundTruth, id2)
           key == HistoryKey(id1, id2)
           reverseKey == HistoryKey(id2, id1)
       IN IF i1 = 0 \/ i2 = 0
          THEN \* return PacketsEqual
               UNCHANGED <<comparisonHistory, claimedMinDelays, LiesTold, answers>>
          ELSE IF key \in DOMAIN comparisonHistory
          THEN /\ answers' = [answers EXCEPT ![<<id1, id2>>] =
                                 @ \cup {comparisonHistory[key]}]
               /\ UNCHANGED <<comparisonHistory, claimedMinDelays, LiesTold>>
          ELSE IF reverseKey \in DOMAIN comparisonHistory
          THEN /\ answers' = [answers EXCEPT ![<<id1, id2>>] =
                                 @ \cup {ReverseComparison(comparisonHistory[reverseKey])}]
               /\ UNCHANGED <<comparisonHistory, claimedMinDelays, LiesTold>>
          ELSE LET rec1 == GroundTruth[i1]
                   rec2 == GroundTruth[i2]
                   truth == ComputeTruth(rec1, rec2)
               IN \E answer \in StrategyAnswers(AnsweringStrat, claimedMinDelays,
                                                rec1, rec2, flaggedPackets) :
                    /\ claimedMinDelays' =
                          IF AnsweringStrat = "AnswerConsistent"
                          THEN ClaimsAfter(claimedMinDelays, rec1, rec2, flaggedPackets)
                          ELSE claimedMinDelays
                    /\ LiesTold' = IF answer # truth THEN LiesTold + 1 ELSE LiesTold
                    /\ comparisonHistory' =
                          [k \in DOMAIN comparisonHistory \cup {key} |->
                              IF k = key THEN answer ELSE comparisonHistory[k]]
                    /\ answers' = [answers EXCEPT ![<<id1, id2>>] = @ \cup {answer}]
    /\ UNCHANGED <<FlaggingStrat, AnsweringStrat, LowDelayPercentile, GroundTruth,
                   flaggedPackets, PacketsFlagged>>

\* StrategicOracle.Reset()
OracleReset ==
    /\ QueriesAnswered > 0
    /\ flaggedPackets' = {}
    /\ claimedMinDelays' = EmptyMap
    /\ comparisonHistory' = EmptyMap
    /\ QueriesAnswered' = 0
    /\ LiesTold' = 0
    /\ PacketsFlagged' = 0
    /\ answers' = NoAnswers
    /\ UNCHANGED <<FlaggingStrat, AnsweringStrat, LowDelayPercentile, GroundTruth>>

OracleNext ==
    \/ OracleFlagPackets /\ UNCHANGED <<schedVars, trialVars, detectorVars, beliefVars, delayVars, logVars, otherVars>>
    \/ (\E q \in QueryPairs : AnswerComparison(q[1], q[2])) /\ UNCHANGED <<schedVars, trialVars, detectorVars, beliefVars, delayVars, logVars, otherVars>>
    \/ OracleReset /\ UNCHANGED <<schedVars, trialVars, detectorVars, beliefVars, delayVars, logVars, otherVars>>

\* ---------------------------------------------------------- oracle claims

\* The answer that says about (b, a) what x says about (a, b).
Swapped(x) ==
    CASE x = "Packet1Faster" -> "Packet2Faster"
      [] x = "Packet2Faster" -> "Packet1Faster"
      [] OTHER -> x

\* C8 as stated: between two resets, every repeat of a query on known
\* packets (a, b) returns the first answer and a query on the reversed pair
\* (b, a) returns the swapped answer, for every pair, a = b included.
C8_MemoAllPairs ==
    \A q \in QueryPairs :
        /\ Cardinality(answers[q]) <= 1
        /\ (answers[q] # {} /\ answers[<<q[2], q[1]>>] # {})
              => answers[<<q[2], q[1]>>] = {Swapped(x) : x \in answers[q]}

\* C8 amended: every repeat of a query on known packets (a, b) returns the
\* first answer, and for a # b a query on the reversed pair (b, a) returns
\* the swapped answer.
C8_MemoConsistent ==
    \A q \in QueryPairs :
        /\ Cardinality(answers[q]) <= 1
        /\ (q[1] # q[2] /\ answers[q] # {} /\ answers[<<q[2], q[1]>>] # {})
              => answers[<<q[2], q[1]>>] = {Swapped(x) : x \in answers[q]}

\* C8 witness: under the Random strategy a pair and its reverse have both
\* been asked (three queries: one is a repeat) with a strict answer.
C8_Witness ==
    /\ AnsweringStrat = "AnswerRandom"
    /\ QueriesAnswered = 3
    /\ \E q \in QueryPairs :
          /\ q[1] # q[2]
          /\ answers[q] = {"Packet1Faster"}
          /\ answers[<<q[2], q[1]>>] = {"Packet2Faster"}
          /\ \A r \in QueryPairs : r \notin {q, <<q[2], q[1]>>} => answers[r] = {}

\* ------------------------------------------------- ContradictionDetector
\* Delays are in units of 0.0001 s, suspicion and severity in 1/1000,
\* interval times in ms.

MaxResponses == 4            \* ProcessResponse calls
TemporalTolerance == 50      \* NewContradictionDetector's tolerance, in percent

DetectorIds == {1, 2, 3}

\* The observed delay in the verifier's record of each packet.
ObservedDelay == (1 :> 300) @@ (2 :> 700) @@ (3 :> 1500)

\* What the caller passes for rec1, rec2 and timeOverlap: no records, or
\* both records with the flag set (with the flag unset CheckComparison
\* returns what the call without records is given: no suspicion, nothing
\* stored).
RecordModes == {"nil", "overlap"}

CompareQuery(a, b) ==
    [Type |-> "COMPARISON", PacketID |-> a, PacketID2 |-> b, PathName |-> "",
     PathHash |-> "", Interval |-> [Start |-> 0, End |-> 0], DelayThreshold |-> 0]

\* The comparison queries put to the oracle: two distinct packets.
CompareQueries ==
    {CompareQuery(p[1], p[2]) : p \in {x \in DetectorIds \X DetectorIds : x[1] # x[2]}}

Contradiction(type, severity) == [Type |-> type, Severity |-> severity]

NoCall == [kind |-> "none"]

\* NewContradictionDetector(minDelay, maxJitter, tolerance)
DetectorInit ==
    /\ graph = {}
    /\ SuspicionScores = EmptyMap
    /\ ResponseHistory = EmptyMap
    /\ Contradictions = <<>>
    /\ processed = 0
    /\ lastCall = NoCall
    /\ strictClaims = {}
    /\ PathDelays = EmptyMap
    /\ storedQueries = {}
    /\ lastPhysical = NoCall

\* The difference from which two answers to a delay query are inconsistent:
\* 0.01 s.
DelayAnswerSlack == 100

\* fmt's %.2f of a time given in ms: hundredths of a second, rounded.
Fmt2(ms) == (ms + 5) \div 10

\* CommitmentChecker.queryHash: the fields printed into the key.
queryHash(q) ==
    <<q.Type, q.PacketID, q.PacketID2, q.PathName,
      Fmt2(q.Interval.Start), Fmt2(q.Interval.End)>>

\* CommitmentChecker.CheckAndRecord: the switch on q.Type that compares the
\* answer r with the stored one.
Inconsistent(type, r, prev) ==
    IF type \in {"COMPARISON", "PATH_HASH", "DELAY_BOUND", "SHORTEST_PATH", "PATH_USED"}
    THEN r # prev
    ELSE IF type = "DELAY"
    THEN (IF r >= prev THEN r - prev ELSE prev - r) > DelayAnswerSlack
    ELSE FALSE

\* CommitmentChecker.CheckAndRecord(q, r): the contradiction returned (a
\* sequence of none or one) and the history left.
CheckAndRecord(history, q, r) ==
    LET hash == queryHash(q)
    IN IF hash \in DOMAIN history /\ Inconsistent(q.Type, r, history[hash])
       THEN [c |-> <<Contradiction("COMMITMENT_VIOLATION", 1000)>>,
             history |-> history]
       ELSE [c |-> <<>>,
             history |-> [h \in DOMAIN history \cup {hash} |->
                            IF h = hash THEN r ELSE history[h]]]

Neighbors(g, node) == {e[2] : e \in {x \in g : x[1] = node}}

\* The closure dfs of TransitivityChecker.findCycle, run on node and on the
\* nodes in todo after it: whether it returns true, and the visited map left.
RECURSIVE Dfs(_, _, _, _)
RECURSIVE DfsRange(_, _, _, _)
Dfs(g, start, node, visited) ==
    IF node \in visited
    THEN [found |-> FALSE, visited |-> visited]
    ELSE DfsRange(g, start, Neighbors(g, node), visited \cup {node})

\* The loop "for neighbor := range tc.graph[node]" of dfs.
DfsRange(g, start, todo, visited) ==
    IF todo = {}
    THEN [found |-> FALSE, visited |-> visited]
    ELSE LET neighbor == CHOOSE x \in todo : TRUE
         IN IF neighbor = start
            THEN [found |-> TRUE, visited |-> visited]
            ELSE LET r == Dfs(g, start, neighbor, visited)
                 IN IF r.found THEN r
                    ELSE DfsRange(g, start, todo \ {neighbor}, r.visited)

\* TransitivityChecker.findCycle(start): whether it returns a cycle.
FindCycleShort(g, start) ==
    \E neighbor \in Neighbors(g, start) :
        neighbor = start \/ start \in Neighbors(g, neighbor)
FindCycle(g, start) ==
    \E neighbor \in Neighbors(g, start) :
        \/ neighbor = start
        \/ Dfs(g, start, neighbor, {start}).found

\* TransitivityChecker.AddComparison(fasterPacket, slowerPacket, queryID)
AddComparison(g, fasterPacket, slowerPacket) ==
    LET g2 == g \cup {<<fasterPacket, slowerPacket>>}
    IN [graph |-> g2,
        c |-> IF FindCycle(g2, fasterPacket)
              THEN <<Contradiction("TRANSITIVITY_VIOLATION", 1000)>>
              ELSE <<>>]

\* TemporalConsistencyChecker.CheckComparison for a claim "the packet that
\* took obsFast was faster than the one that took obsSlow": the suspicion,
\* whether it is added to the claimed packet's score, and the contradiction.
TemporalCheck(obsFast, obsSlow, timeWindowOverlap) ==
    IF timeWindowOverlap /\ obsFast * 100 > obsSlow * (100 + TemporalTolerance)
    THEN LET suspicion == ((obsFast - obsSlow) * 1000) \div obsSlow
             severity == IF suspicion \div 2 < 900 THEN suspicion \div 2 ELSE 900
         IN [suspicion |-> suspicion, scored |-> TRUE,
             c |-> IF obsFast - obsSlow > obsSlow
                   THEN <<Contradiction("TEMPORAL_MISMATCH", severity)>>
                   ELSE <<>>]
    ELSE [suspicion |-> 0, scored |-> FALSE, c |-> <<>>]

\* TemporalConsistencyChecker.CheckComparison(packet1, packet2, result, overlap)
CheckComparison(id1, id2, comparisonResult, timeWindowOverlap) ==
    IF comparisonResult = "Packet1Faster"
    THEN TemporalCheck(ObservedDelay[id1], ObservedDelay[id2], timeWindowOverlap)
    ELSE IF comparisonResult = "Packet2Faster"
    THEN TemporalCheck(ObservedDelay[id2], ObservedDelay[id1], timeWindowOverlap)
    ELSE [suspicion |-> 0, scored |-> FALSE, c |-> <<>>]

\* The threshold from which ProcessResponse reports a temporal or physical
\* contradiction as found.
FoundSeverity == 900

MinPhysicalDelay == 100      \* 0.01 s: NewContradictionDetector's minDelay
MaxJitter == 25000           \* 2.5 s: NewContradictionDetector's maxJitter
PhysicalSlack == 10          \* 0.001 s
JitterAllowance == 50000     \* 5.0 s

\* The path named in the verifier's record of each packet.
PathUsed == (1 :> "A") @@ (2 :> "B") @@ (3 :> "A")

\* PhysicalConstraintChecker.AddPath(pathName, baseDelay)
AddPath(pathName, baseDelay) ==
    /\ PathDelays' = [x \in DOMAIN PathDelays \cup {pathName} |->
                        IF x = pathName THEN baseDelay ELSE PathDelays[x]]
    /\ UNCHANGED <<graph, SuspicionScores, ResponseHistory, Contradictions,
                   processed, lastCall, strictClaims, storedQueries, lastPhysical>>

\* PhysicalConstraintChecker.CheckClaim(claimedMinDelay, observedDelay,
\* pathName): the contradiction returned, a sequence of none or one.
CheckClaim(paths, claimedMinDelay, observedDelay, pathName) ==
    IF claimedMinDelay < MinPhysicalDelay
    THEN <<Contradiction("PHYSICAL_IMPOSSIBLE", 1000)>>
    ELSE IF observedDelay < claimedMinDelay - PhysicalSlack
    THEN <<Contradiction("PHYSICAL_IMPOSSIBLE", 1000)>>
    ELSE IF pathName \in DOMAIN paths /\ claimedMinDelay < paths[pathName] - PhysicalSlack
    THEN <<Contradiction("PHYSICAL_IMPOSSIBLE", 1000)>>
    ELSE <<>>

\* PhysicalConstraintChecker.CheckDelayBounds(pathName, observedDelay): the
\* contradiction returned, a sequence of none or one.
CheckDelayBounds(paths, pathName, observedDelay) ==
    IF pathName \notin DOMAIN paths THEN <<>>
    ELSE IF observedDelay < paths[pathName] - PhysicalSlack
    THEN <<Contradiction("PHYSICAL_IMPOSSIBLE", 1000)>>
    ELSE IF observedDelay > paths[pathName] + MaxJitter + JitterAllowance
    THEN <<Contradiction("DELAY_MISMATCH", 500)>>
    ELSE <<>>

AddScore(scores, id, s) ==
    [x \in DOMAIN scores \cup {id} |->
        IF x = id THEN (IF id \in DOMAIN scores THEN scores[id] ELSE 0) + s
        ELSE scores[x]]

\* ContradictionDetector.ProcessResponse(q, r, rec1, rec2, timeOverlap)
ProcessResponse(q, r, mode) ==
    /\ processed < MaxResponses
    /\ processed' = processed + 1
    /\ LET cm == CheckAndRecord(ResponseHistory, q, r)
           isComparison == q.Type = "COMPARISON"
           faster == IF r = "Packet1Faster" THEN q.PacketID ELSE q.PacketID2
           slower == IF r = "Packet1Faster" THEN q.PacketID2 ELSE q.PacketID
           strict == isComparison /\ r # "PacketsEqual"
           tr == IF strict THEN AddComparison(graph, faster, slower)
                 ELSE [graph |-> graph, c |-> <<>>]
           tm == IF isComparison /\ mode # "nil"
                 THEN CheckComparison(q.PacketID, q.PacketID2, r, mode = "overlap")
                 ELSE [suspicion |-> 0, scored |-> FALSE, c |-> <<>>]
           ph == IF q.Type = "DELAY" /\ mode # "nil"
                 THEN CheckDelayBounds(PathDelays, PathUsed[q.PacketID], r)
                 ELSE <<>>
           new == cm.c \o tr.c \o tm.c \o ph
           foundContradiction ==
               \/ cm.c # <<>>
               \/ tr.c # <<>>
               \/ (tm.c # <<>> /\ tm.c[1].Severity >= FoundSeverity)
               \/ (ph # <<>> /\ ph[1].Severity >= FoundSeverity)
       IN /\ ResponseHistory' = cm.history
          /\ graph' = tr.graph
          /\ SuspicionScores' =
                IF tm.scored THEN AddScore(SuspicionScores, faster, tm.suspicion)
                ELSE SuspicionScores
          /\ Contradictions' = Contradictions \o new
          /\ strictClaims' = IF strict THEN strictClaims \cup {<<faster, slower>>}
                             ELSE strictClaims
          /\ storedQueries' = IF cm.c = <<>> THEN storedQueries \cup {q}
                              ELSE storedQueries
          /\ lastCall' = [kind |-> "response", query |-> q, answer |-> r,
                          suspicion |-> tm.suspicion, found |-> foundContradiction,
                          new |-> new, history |-> ResponseHistory,
                          claims |-> strictClaims, stored |-> storedQueries]
    /\ UNCHANGED <<PathDelays, lastPhysical>>

\* ContradictionDetector.GetDefinitiveContradictions
Definitive(c) == c.Severity >= 990

\* ContradictionDetector.Reset() if Transitivity.Reset() were left out
DetectorResetKeepGraph ==
    /\ processed > 0
    /\ lastCall.kind = "response"
    /\ SuspicionScores' = EmptyMap
    /\ ResponseHistory' = EmptyMap
    /\ Contradictions' = <<>>
    /\ strictClaims' = {}
    /\ storedQueries' = {}
    /\ lastCall' = NoCall
    /\ UNCHANGED <<graph, processed, PathDelays, lastPhysical>>

\* ContradictionDetector.Reset()
DetectorReset ==
    /\ processed > 0
    /\ lastCall.kind = "response"
    /\ graph' = {}
    /\ SuspicionScores' = EmptyMap
    /\ ResponseHistory' = EmptyMap
    /\ Contradictions' = <<>>
    /\ strictClaims' = {}
    /\ storedQueries' = {}
    /\ lastCall' = NoCall
    /\ UNCHANGED <<processed, PathDelays, lastPhysical>>

DetectorNext ==
    \/ (\E q \in CompareQueries, r \in ComparisonResults, mode \in RecordModes :
            ProcessResponse(q, r, mode)) /\ UNCHANGED <<schedVars, trialVars, oracleVars, beliefVars, delayVars, logVars, otherVars>>
    \/ DetectorReset /\ UNCHANGED <<schedVars, trialVars, oracleVars, beliefVars, delayVars, logVars, otherVars>>

\* Queries of the other kinds.  Interval times are in ms.
DelayBoundQuery(p, threshold) ==
    [Type |-> "DELAY_BOUND", PacketID |-> p, PacketID2 |-> 0, PathName |-> "",
     PathHash |-> "", Interval |-> [Start |-> 0, End |-> 0],
     DelayThreshold |-> threshold]

CongestionQuery(hash) ==
    [Type |-> "CONGESTION_FLAG", PacketID |-> 0, PacketID2 |-> 0, PathName |-> "",
     PathHash |-> hash, Interval |-> [Start |-> 0, End |-> 1000],
     DelayThreshold |-> 0]

DelayQuery(p, start) ==
    [Type |-> "DELAY", PacketID |-> p, PacketID2 |-> 0, PathName |-> "",
     PathHash |-> "", Interval |-> [Start |-> start, End |-> 1000],
     DelayThreshold |-> 0]

\* The calls of ProcessResponse with queries of several kinds: the query,
\* the answer and what is passed for the records.
KindCalls ==
    {<<DelayBoundQuery(1, th), b, "nil">> : th \in {200, 400}, b \in BOOLEAN}
    \cup {<<CongestionQuery(h), b, "nil">> : h \in {"h1", "h2"}, b \in BOOLEAN}
    \cup {<<DelayQuery(1, st), d, m>> : st \in {0, 4}, d \in {10, 300}, m \in RecordModes}
    \cup {<<CompareQuery(1, 2), r, "nil">> : r \in ComparisonResults}

QueriesNext ==
    \/ (\E c \in KindCalls : ProcessResponse(c[1], c[2], c[3]))
            /\ UNCHANGED <<schedVars, trialVars, oracleVars, beliefVars, delayVars, logVars, otherVars>>
    \/ AddPath("A", 200) /\ UNCHANGED <<schedVars, trialVars, oracleVars, beliefVars, delayVars, logVars, otherVars>>
    \/ DetectorReset /\ UNCHANGED <<schedVars, trialVars, oracleVars, beliefVars, delayVars, logVars, otherVars>>

\* Direct calls of the physical checker.
PhysicalDelays == {10, 100, 200, 300}
PhysicalPaths == {"A", "B"}

CallCheckClaim(claimed, observed, pathName) ==
    /\ lastPhysical' = [kind |-> "CheckClaim", claimed |-> claimed,
                        observed |-> observed, path |-> pathName,
                        c |-> CheckClaim(PathDelays, claimed, observed, pathName)]
    /\ UNCHANGED <<graph, SuspicionScores, ResponseHistory, Contradictions,
                   processed, lastCall, strictClaims, storedQueries, PathDelays>>

CallCheckDelayBounds(pathName, observed) ==
    /\ lastPhysical' = [kind |-> "CheckDelayBounds", claimed |-> observed,
                        observed |-> observed, path |-> pathName,
                        c |-> CheckDelayBounds(PathDelays, pathName, observed)]
    /\ UNCHANGED <<graph, SuspicionScores, ResponseHistory, Contradictions,
                   processed, lastCall, strictClaims, storedQueries, PathDelays>>

PhysicalNext ==
    \/ (\E pn \in PhysicalPaths, d \in {200, 300} : AddPath(pn, d))
            /\ UNCHANGED <<schedVars, trialVars, oracleVars, beliefVars, delayVars, logVars, otherVars>>
    \/ (\E cl \in PhysicalDelays, ob \in PhysicalDelays, pn \in PhysicalPaths :
            CallCheckClaim(cl, ob, pn))
            /\ UNCHANGED <<schedVars, trialVars, oracleVars, beliefVars, delayVars, logVars, otherVars>>
    \/ (\E pn \in PhysicalPaths, ob \in PhysicalDelays \cup {80000} :
            CallCheckDelayBounds(pn, ob))
            /\ UNCHANGED <<schedVars, trialVars, oracleVars, beliefVars, delayVars, logVars, otherVars>>

\* --------------------------------------------------------- detector claims

\* The packets reachable from the packets in S along the claims in E.
RECURSIVE ReachableFrom(_, _)
ReachableFrom(E, S) ==
    LET T == S \cup {e[2] : e \in {x \in E : x[1] \in S}}
    IN IF T = S THEN S ELSE ReachableFrom(E, T)

\* The strict claim <<a, b>> made by the last call, <<>> if it made none.
LastClaim ==
    IF lastCall.kind # "response" \/ lastCall.answer = "PacketsEqual" THEN <<>>
    ELSE IF lastCall.answer = "Packet1Faster"
    THEN <<lastCall.query.PacketID, lastCall.query.PacketID2>>
    ELSE <<lastCall.query.PacketID2, lastCall.query.PacketID>>

\* The last call's claim lies on a directed cycle of the strict claims
\* processed since the last Reset.
LastClaimOnCycle ==
    /\ LastClaim # <<>>
    /\ LastClaim[1] \in ReachableFrom(strictClaims, {LastClaim[2]})

HasNew(type) ==
    \E i \in 1..Len(lastCall.new) : lastCall.new[i].Type = type

\* C9: when the strict claim of the answer just processed lies on a directed
\* cycle of the strict claims processed so far, that call appended a
\* transitivity contradiction of severity >= 0.99 and returned found = true.
C9_CycleIsDefinitive ==
    LastClaimOnCycle =>
        /\ lastCall.found
        /\ \E i \in 1..Len(lastCall.new) :
              /\ lastCall.new[i].Type = "TRANSITIVITY_VIOLATION"
              /\ Definitive(lastCall.new[i])
        /\ \E i \in 1..Len(Contradictions) :
              /\ Contradictions[i].Type = "TRANSITIVITY_VIOLATION"
              /\ Definitive(Contradictions[i])

\* C9 witness: the fourth answer processed makes a new claim that closes a
\* cycle through three distinct packets, an answer of "equal" having been
\* processed among the other three.
C9_Witness ==
    /\ processed = 4
    /\ LastClaimOnCycle
    /\ LastClaim \notin lastCall.claims
    /\ Cardinality(strictClaims) = 3
    /\ LastClaim[1] # LastClaim[2]
    /\ <<LastClaim[2], LastClaim[1]>> \notin strictClaims
    /\ \E h \in DOMAIN ResponseHistory : ResponseHistory[h] = "PacketsEqual"
    /\ lastCall.found

\* C10: once an answer to Compare(a, b) is recorded, an answer to
\* Compare(b, a), a # b, that is not its swap is reported as a commitment
\* contradiction of severity >= 0.99, and one that is its swap raises no
\* commitment contradiction (no answer to Compare(b, a) being recorded yet).
C10_OrderInsensitive ==
    (/\ lastCall.kind = "response"
     /\ lastCall.query.PacketID # lastCall.query.PacketID2
     /\ queryHash(CompareQuery(lastCall.query.PacketID2, lastCall.query.PacketID))
            \in DOMAIN lastCall.history
     /\ queryHash(lastCall.query) \notin DOMAIN lastCall.history)
    => LET recorded == lastCall.history[
                queryHash(CompareQuery(lastCall.query.PacketID2,
                                       lastCall.query.PacketID))]
       IN IF lastCall.answer # Swapped(recorded)
          THEN /\ lastCall.found
               /\ \E i \in 1..Len(lastCall.new) :
                     /\ lastCall.new[i].Type = "COMMITMENT_VIOLATION"
                     /\ Definitive(lastCall.new[i])
          ELSE ~ HasNew("COMMITMENT_VIOLATION")

\* C11: two queries that differ in any parameter are never treated as the
\* same query: whenever a call reports a commitment contradiction, a
\* response to a query with the same kind and the same parameters was
\* stored before.
C11_KeyPreservesParameters ==
    (lastCall.kind = "response" /\ HasNew("COMMITMENT_VIOLATION"))
        => lastCall.query \in lastCall.stored

\* C12: a temporal mismatch has severity min(sigma/2, 0.9) and is never
\* definitive, and ProcessResponse returns found = true only when the call
\* appended a contradiction of severity >= 0.99.
C12_TemporalNeverFound ==
    lastCall.kind = "response" =>
        /\ \A i \in 1..Len(lastCall.new) :
              lastCall.new[i].Type = "TEMPORAL_MISMATCH"
                  => /\ ~ Definitive(lastCall.new[i])
                     /\ lastCall.new[i].Severity =
                            (IF lastCall.suspicion \div 2 < 900
                             THEN lastCall.suspicion \div 2 ELSE 900)
        /\ lastCall.found
              => \E i \in 1..Len(lastCall.new) : Definitive(lastCall.new[i])

\* C13: whenever the claimed or the observed delay handed to the physical
\* checker is below the minimum physical delay, the checker returns a
\* definitive physical contradiction, whatever the path and the other
\* delay.
C13_BelowMinimumIsDefinitive ==
    (/\ lastPhysical.kind # "none"
     /\ (lastPhysical.claimed < MinPhysicalDelay
            \/ lastPhysical.observed < MinPhysicalDelay))
    => /\ lastPhysical.c # <<>>
       /\ lastPhysical.c[1].Type = "PHYSICAL_IMPOSSIBLE"
       /\ Definitive(lastPhysical.c[1])

\* ------------------------------------------------------ scheduler claims

ExecutedIds == {executed[i].id : i \in 1..Len(executed)}
PendingIds  == {events[i].id : i \in 1..Len(events)}
AcceptedIds == {a.id : a \in accepted}

\* C1: executing an event never moves Now backwards: along every behaviour
\* the values of Now form a non-decreasing chain.
C1_NowNonDecreasing == [][Now' >= Now]_vars

\* C2: events with equal execution time are executed in the order in which
\* they were inserted: of two executed events with the same time, the one
\* executed first has the smaller insertion number.
C2_FifoTieBreak ==
    \A i, j \in 1..Len(executed) :
        (i < j /\ executed[i].time = executed[j].time)
            => executed[i].id < executed[j].id

\* C3: when Run(until) has returned, every accepted event with time <= until
\* has been executed (those enqueued during the call included), every event
\* executed by the call had time <= until, and every accepted event with
\* time > until that no earlier call executed is still pending.
C3_RunUntilContract ==
    pc = "returned" =>
        /\ \A a \in accepted : a.time <= until => a.id \in ExecutedIds
        /\ \A i \in (runFrom + 1)..Len(executed) : executed[i].time <= until
        /\ \A a \in accepted :
               (a.time > until /\ a.id \notin {executed[i].id : i \in 1..runFrom})
                   => a.id \in PendingIds /\ a.id \notin ExecutedIds

\* C3 witness: a Run call has returned after executing an event that was
\* enqueued during that same call, leaving a later event pending.
C3_Witness ==
    /\ pc = "returned"
    /\ \E i \in (runFrom + 1)..Len(executed) : executed[i].id >= runFirstId
    /\ \E k \in 1..Len(events) : events[k].time > until

\* C4: Schedule with a negative delay is rejected (nothing is enqueued), so
\* no pending event has a time earlier than Now.
C4_NegativeDelayRejected ==
    /\ (lastOp.op = "Schedule" /\ lastOp.arg < 0) => lastOp.id \notin AcceptedIds
    /\ \A k \in 1..Len(events) : events[k].time >= Now

\* C5: a ScheduleAt(t, action) call with t < Now changes neither the queue
\* nor Now and its action is never executed; with t >= Now it adds exactly
\* one event, at time t, to the queue and changes nothing else.
C5_ScheduleAtContract ==
    /\ [](\A i \in 1..(nextId - 1) :
             i \notin AcceptedIds => (i \notin ExecutedIds /\ i \notin PendingIds))
    /\ [][(lastOp'.id # lastOp.id /\ lastOp'.op = "ScheduleAt") =>
            /\ Now' = Now
            /\ executed' = executed
            /\ IF lastOp'.arg < Now
               THEN events' = events /\ lastOp'.id \notin AcceptedIds'
               ELSE /\ Len(events') = Len(events) + 1
                    /\ \E p \in 1..Len(events') :
                         /\ events'[p].id = lastOp'.id
                         /\ events'[p].time = lastOp'.arg
                         /\ SeqToSet(events') \ {events'[p]} = SeqToSet(events)
          ]_vars

\* C5 witness: a ScheduleAt call with a time in the past has been made and
\* was dropped.
C5_Witness ==
    /\ lastOp.op = "ScheduleAt"
    /\ lastOp.arg < Now
    /\ lastOp.id \notin AcceptedIds

C40_RunWitness ==
    /\ pc = "returned"
    /\ \E i \in (runFrom + 1)..Len(executed) : executed[i].id >= runFirstId
    /\ \E k \in 1..Len(events) : events[k].id < runFirstId


\* ---------------------------------------------------------- trial claims

TraceIdx(what) == {j \in 1..Len(trace) : trace[j].what = what}

\* C6: every delivery fires at virtual time sendTime + total delay, and in
\* it the record reaches the observer immediately before the destination's
\* Receive: each receive in the call history directly follows the record of
\* the same packet, made at the same virtual time.
C6_RecordBeforeReceive ==
    /\ \A j \in TraceIdx("record") : trace[j].at = trace[j].sent + trace[j].total
    /\ \A j \in TraceIdx("receive") :
          /\ trace[j].at = trace[j].sent + trace[j].total
          /\ j > 1
          /\ trace[j - 1].what = "record"
          /\ trace[j - 1].pkt = trace[j].pkt
          /\ trace[j - 1].at = trace[j].at
    /\ destReceived = Cardinality(TraceIdx("receive"))
    /\ destReceived <= Cardinality(TraceIdx("record"))

\* C6 witness: every packet of the trial has been delivered to the
\* destination, one of them a targeted packet.
C6_Witness ==
    /\ destReceived = TrialPackets
    /\ \E x \in DOMAIN oraclePackets : oraclePackets[x].MaliciousDelay > 0

\* C7: in a trial every record reaches the oracle before the flags are
\* assigned, the flags are assigned at most once and only after the
\* scheduler run has returned, and no query reaches the oracle before the
\* flagging: in the call history every record precedes the flag call, which
\* precedes every query.
C7_RecordFlagQueryOrder ==
    /\ Cardinality(TraceIdx("flag")) <= 1
    /\ TraceIdx("flag") # {} => pc = "returned"
    /\ TraceIdx("query") # {} => TraceIdx("flag") # {}
    /\ \A i \in TraceIdx("record") : \A j \in TraceIdx("flag") \cup TraceIdx("query") : i < j
    /\ \A i \in TraceIdx("flag") : \A j \in TraceIdx("query") : i < j
    /\ tpc \in {"verify", "done"} => Cardinality(TraceIdx("flag")) = 1

\* C7 witness: a trial has ended in which the oracle received a record, was
\* asked to flag and answered a query.
C7_Witness ==
    /\ tpc = "done"
    /\ TraceIdx("record") # {}
    /\ TraceIdx("flag") # {}
    /\ TraceIdx("query") # {}

\* C17: every record the router emitted has a malicious delay > 0 if and
\* only if it is marked as targeted.
C17_MaliciousIffTargeted ==
    \A id \in DOMAIN oraclePackets :
        (oraclePackets[id].MaliciousDelay > 0) <=> oraclePackets[id].WasDelayed


\* ------------------------------------------------------------------
\* The StrategicOracle's query interface with a history of the last call:
\* Answer(q) for comparison and delay-bound queries, FlagPackets, Reset.
\* Delays and thresholds are in 0.0001 s.
\* ------------------------------------------------------------------

NoLog == [kind |-> "none"]

\* the histories while nothing has been called
LogIdle ==
    /\ lastAnswered = NoLog
    /\ lastCycle = NoLog
    /\ preReset = NoLog

\* the execution loop, the packet batch and the verifier of package
\* verification while nothing uses them
LoopIdle ==
    /\ maxQueries = 0
    /\ stopReason = ""

SampleIdle ==
    /\ batch = <<>>
    /\ sampled = NoLog

VerifierIdle ==
    /\ networkOracle = NoLog
    /\ verifier = NoLog
    /\ verification = NoLog

\* no RunSteps call is in progress
StepsIdle == steps = 0

OtherIdle == LoopIdle /\ SampleIdle /\ VerifierIdle /\ StepsIdle

\* the DelayThreshold of the delay-bound queries
DelayThresholds == {250, 600}

\* the comparison queries put to the oracle: the pairs of distinct known
\* packets and two pairs with an id that was never transmitted
AskPairs ==
    {q \in KnownIds \X KnownIds : q[1] # q[2]} \cup {<<1, 0>>, <<0, 2>>}

\* the packets of the delay-bound queries
AskIds == {0, 1, 3}

\* the flagging strategies of the oracles queried
AskFlagging == {"FlagNone", "FlagActualDelayed"}

\* the number of calls in the history
LogCount == IF lastAnswered.kind = "none" THEN 0 ELSE lastAnswered.n

\* NewStrategicOracle(flagStrat, answerStrat, ...) after the simulation has
\* delivered its records
AskedOracleInit ==
    /\ OracleInit
    /\ FlaggingStrat \in AskFlagging

\* StrategicOracle.AnswerComparison(packetID1, packetID2): the values it can
\* return in the state given
ComparisonAnswers(gt, history, strat, claims, flagged, id1, id2) ==
    LET i1 == FindRecordByID(gt, id1)
        i2 == FindRecordByID(gt, id2)
    IN  IF i1 = 0 \/ i2 = 0 THEN {"PacketsEqual"}
        ELSE IF HistoryKey(id1, id2) \in DOMAIN history
        THEN {history[HistoryKey(id1, id2)]}
        ELSE IF HistoryKey(id2, id1) \in DOMAIN history
        THEN {ReverseComparison(history[HistoryKey(id2, id1)])}
        ELSE StrategyAnswers(strat, claims, gt[i1], gt[i2], flagged)

\* StrategicOracle.Answer(q) for q.Type = QueryComparison: the call of
\* AnswerComparison and the ComparisonAnswer of the response
AskComparison(id1, id2) ==
    /\ LogCount < MaxOracleQueries
    /\ AnswerComparison(id1, id2)
    /\ \E answer \in ComparisonAnswers(GroundTruth, comparisonHistory,
                       AnsweringStrat, claimedMinDelays, flaggedPackets, id1, id2) :
           /\ (FindRecordByID(GroundTruth, id1) # 0
                   /\ FindRecordByID(GroundTruth, id2) # 0
                   /\ HistoryKey(id1, id2) \notin DOMAIN comparisonHistory
                   /\ HistoryKey(id2, id1) \notin DOMAIN comparisonHistory)
                  => comparisonHistory'[HistoryKey(id1, id2)] = answer
           /\ lastAnswered' = [kind |-> "comparison", n |-> LogCount + 1,
                               id1 |-> id1, id2 |-> id2, answer |-> answer]
    /\ UNCHANGED <<lastCycle, preReset>>

\* StrategicOracle.Answer(q) for q.Type = QueryDelayBound
AskDelayBound(id, threshold) ==
    /\ LogCount < MaxOracleQueries
    /\ LET i == FindRecordByID(GroundTruth, id)
       IN  IF i = 0
           THEN /\ lastAnswered' = [kind |-> "delaybound", n |-> LogCount + 1,
                                    id1 |-> id, threshold |-> threshold,
                                    answer |-> FALSE]
                /\ UNCHANGED claimedMinDelays
           ELSE LET rec == GroundTruth[i]
                    claimed == IF rec.PacketID \in DOMAIN claimedMinDelays
                               THEN claimedMinDelays[rec.PacketID]
                               ELSE NewClaim(rec, flaggedPackets)
                IN  /\ claimedMinDelays' =
                           [x \in DOMAIN claimedMinDelays \cup {rec.PacketID} |->
                               IF x = rec.PacketID THEN claimed
                               ELSE claimedMinDelays[x]]
                    /\ lastAnswered' = [kind |-> "delaybound", n |-> LogCount + 1,
                                        id1 |-> id, threshold |-> threshold,
                                        answer |-> claimed > threshold]
    /\ UNCHANGED <<FlaggingStrat, AnsweringStrat, LowDelayPercentile, GroundTruth,
                   flaggedPackets, comparisonHistory, QueriesAnswered, LiesTold,
                   PacketsFlagged, answers, lastCycle, preReset>>

\* StrategicOracle.FlagPackets()
CallFlagPackets ==
    /\ LogCount < MaxOracleQueries
    /\ OracleFlagPackets
    /\ lastAnswered' = [kind |-> "flag", n |-> LogCount + 1]
    /\ UNCHANGED <<lastCycle, preReset>>

\* StrategicOracle.Reset()
CallOracleReset ==
    /\ LogCount < MaxOracleQueries
    /\ OracleReset
    /\ lastAnswered' = [kind |-> "reset", n |-> LogCount + 1]
    /\ UNCHANGED <<lastCycle, preReset>>

AnswersNext ==
    \/ (\E q \in AskPairs : AskComparison(q[1], q[2]))
       /\ UNCHANGED <<schedVars, trialVars, detectorVars, beliefVars, delayVars, otherVars>>
    \/ (\E id \in AskIds, th \in DelayThresholds : AskDelayBound(id, th))
       /\ UNCHANGED <<schedVars, trialVars, detectorVars, beliefVars, delayVars, otherVars>>
    \/ CallFlagPackets
       /\ UNCHANGED <<schedVars, trialVars, detectorVars, beliefVars, delayVars, otherVars>>
    \/ CallOracleReset
       /\ UNCHANGED <<schedVars, trialVars, detectorVars, beliefVars, delayVars, otherVars>>

\* C21: under AnswerConsistent no comparison query, delay-bound query or
\* FlagPackets call changes a claimed minimum that is stored; after a query
\* on known packets each of them has a claimed minimum, and the answer is
\* the ordering (with the 0.001 slack) or the threshold test of the stored
\* claimed minimums.
C21_ClaimedMinimumFrozen ==
    [][(AnsweringStrat = "AnswerConsistent"
           /\ lastAnswered'.kind \in {"comparison", "delaybound", "flag"})
       => /\ \A x \in DOMAIN claimedMinDelays :
                /\ x \in DOMAIN claimedMinDelays'
                /\ claimedMinDelays'[x] = claimedMinDelays[x]
          /\ (lastAnswered'.kind = "comparison"
                 /\ lastAnswered'.id1 \in KnownIds /\ lastAnswered'.id2 \in KnownIds)
             => /\ {lastAnswered'.id1, lastAnswered'.id2} \subseteq DOMAIN claimedMinDelays'
                /\ lastAnswered'.answer
                      = CompareDelays(claimedMinDelays'[lastAnswered'.id1],
                                      claimedMinDelays'[lastAnswered'.id2])
          /\ (lastAnswered'.kind = "delaybound" /\ lastAnswered'.id1 \in KnownIds)
             => /\ lastAnswered'.id1 \in DOMAIN claimedMinDelays'
                /\ lastAnswered'.answer
                      = (claimedMinDelays'[lastAnswered'.id1] > lastAnswered'.threshold)
      ]_vars

\* C21 witness: a comparison was answered under AnswerConsistent about a
\* packet whose claimed minimum was stored before FlagPackets flagged it, so
\* the stored value is not the one a flagged packet would be given now.
C21_Witness ==
    /\ AnsweringStrat = "AnswerConsistent"
    /\ lastAnswered.kind = "comparison"
    /\ lastAnswered.id1 \in flaggedPackets
    /\ lastAnswered.id1 \in DOMAIN claimedMinDelays
    /\ claimedMinDelays[lastAnswered.id1]
          # NewClaim(GroundTruth[FindRecordByID(GroundTruth, lastAnswered.id1)],
                     flaggedPackets)

\* C22: a comparison query with an id that no record of the ground truth
\* has is answered PacketsEqual, leaves LiesTold unchanged and adds no entry
\* to comparisonHistory or claimedMinDelays.
C22_UnknownPacketEqual ==
    [][(lastAnswered'.kind = "comparison"
           /\ \E id \in {lastAnswered'.id1, lastAnswered'.id2} :
                 \A i \in 1..Len(GroundTruth) : GroundTruth[i].PacketID # id)
       => /\ lastAnswered'.answer = "PacketsEqual"
          /\ LiesTold' = LiesTold
          /\ comparisonHistory' = comparisonHistory
          /\ claimedMinDelays' = claimedMinDelays
      ]_vars

\* C22 witness: a comparison with an unknown id was answered by an oracle
\* that lies, after an answer was memoised and a claim stored.
C22_Witness ==
    /\ lastAnswered.kind = "comparison"
    /\ \E id \in {lastAnswered.id1, lastAnswered.id2} :
          \A i \in 1..Len(GroundTruth) : GroundTruth[i].PacketID # id
    /\ AnsweringStrat = "AnswerConsistent"
    /\ DOMAIN comparisonHistory # {}
    /\ DOMAIN claimedMinDelays # {}

\* C23 as stated: LiesTold goes up by one on exactly the comparison queries
\* whose returned answer differs from the ordering of the two minimum
\* delays, which is what AnswerHonest returns for the pair (PacketsEqual for
\* an unknown id); it is 0 under AnswerHonest and at most QueriesAnswered.
C23_LieCountedOnEveryLie ==
    [][lastAnswered'.kind = "comparison"
       => LET id1 == lastAnswered'.id1
              id2 == lastAnswered'.id2
              honest == IF id1 \in KnownIds /\ id2 \in KnownIds
                        THEN CompareDelays(GroundTruth[id1].MinDelay,
                                           GroundTruth[id2].MinDelay)
                        ELSE "PacketsEqual"
          IN /\ LiesTold' = IF lastAnswered'.answer # honest
                            THEN LiesTold + 1 ELSE LiesTold
             /\ (AnsweringStrat = "AnswerHonest" => LiesTold' = 0)
             /\ LiesTold' <= QueriesAnswered'
      ]_vars

\* C23 amended: LiesTold goes up by one on exactly the comparison queries
\* on two known packets that are answered by the strategy, not from
\* comparisonHistory, with an answer that differs from the ordering of the
\* two minimum delays; no other query and no FlagPackets call changes it;
\* it is 0 under AnswerHonest and at most QueriesAnswered.
C23_FreshLieCounted ==
    [][lastAnswered'.kind \in {"comparison", "delaybound", "flag"}
       => /\ LiesTold' =
                IF lastAnswered'.kind = "comparison"
                      /\ lastAnswered'.id1 \in KnownIds
                      /\ lastAnswered'.id2 \in KnownIds
                      /\ <<lastAnswered'.id1, lastAnswered'.id2>>
                            \notin DOMAIN comparisonHistory
                      /\ <<lastAnswered'.id2, lastAnswered'.id1>>
                            \notin DOMAIN comparisonHistory
                      /\ lastAnswered'.answer
                            # CompareDelays(GroundTruth[lastAnswered'.id1].MinDelay,
                                            GroundTruth[lastAnswered'.id2].MinDelay)
                THEN LiesTold + 1
                ELSE LiesTold
          /\ (AnsweringStrat = "AnswerHonest" => LiesTold' = 0)
          /\ LiesTold' <= QueriesAnswered'
      ]_vars

\* C23 witness: an answer that differs from the ordering of the minimum
\* delays was returned from comparisonHistory, after the query that stored
\* it was counted as the only lie.
C23_Witness ==
    /\ lastAnswered.kind = "comparison"
    /\ lastAnswered.id1 \in KnownIds
    /\ lastAnswered.id2 \in KnownIds
    /\ lastAnswered.answer # CompareDelays(GroundTruth[lastAnswered.id1].MinDelay,
                                           GroundTruth[lastAnswered.id2].MinDelay)
    /\ QueriesAnswered = 2
    /\ LiesTold = 1
    /\ Cardinality(DOMAIN comparisonHistory) = 1

\* C24: PacketsEqual is returned only for a pair the oracle cannot tell
\* apart: a packet is unknown, or the minimum delays, the observed delays or
\* the claimed minimums of the two packets are within the 0.001 slack.
C24_EqualOnlyWhenIndistinguishable ==
    (lastAnswered.kind = "comparison" /\ lastAnswered.answer = "PacketsEqual")
    => LET id1 == lastAnswered.id1
           id2 == lastAnswered.id2
       IN \/ id1 \notin KnownIds
          \/ id2 \notin KnownIds
          \/ CompareDelays(GroundTruth[id1].MinDelay, GroundTruth[id2].MinDelay)
                = "PacketsEqual"
          \/ CompareDelays(GroundTruth[id1].ActualDelay, GroundTruth[id2].ActualDelay)
                = "PacketsEqual"
          \/ /\ {id1, id2} \subseteq DOMAIN claimedMinDelays
             /\ CompareDelays(claimedMinDelays[id1], claimedMinDelays[id2])
                   = "PacketsEqual"

\* C27: the answer to a comparison query is determined by the oracle's
\* state before the call (ground truth, flags, comparisonHistory, claimed
\* minimums, strategy) and the query: it is the only answer the call can
\* return in that state.
C27_AnswerIsFunctionOfState ==
    [][lastAnswered'.kind = "comparison"
       => ComparisonAnswers(GroundTruth, comparisonHistory, AnsweringStrat,
                            claimedMinDelays, flaggedPackets,
                            lastAnswered'.id1, lastAnswered'.id2)
             = {lastAnswered'.answer}
      ]_vars

\* ------------------------------------------------------------------
\* TransitivityChecker's reported cycle and ContradictionDetector.Reset
\* between verifications (src/internal/verification/contradiction.go).
\* Go iterates a map in an order that changes from one range statement
\* to the next, so each "for neighbor := range" can take the
\* neighbours in any order.
\* ------------------------------------------------------------------

\* the length at which reconstructCycle gives up
CycleCap == 100

\* the return value nil of findCycle
NoCycle == <<>>

\* The closure dfs of findCycle on node with the neighbours in any order:
\* the possible results, each with the visited map and the keys of the
\* parent map left.
RECURSIVE DfsAll(_, _, _, _, _)
RECURSIVE DfsRangeAll(_, _, _, _, _)
DfsAll(g, start, node, visited, parent) ==
    IF node \in visited
    THEN {[found |-> FALSE, visited |-> visited, parent |-> parent]}
    ELSE DfsRangeAll(g, start, Neighbors(g, node), visited \cup {node}, parent)

\* The loop "for neighbor := range tc.graph[node]" of dfs over the
\* neighbours in todo, in any order.
DfsRangeAll(g, start, todo, visited, parent) ==
    IF todo = {}
    THEN {[found |-> FALSE, visited |-> visited, parent |-> parent]}
    ELSE UNION {IF neighbor = start
                THEN {[found |-> TRUE, visited |-> visited, parent |-> parent]}
                ELSE UNION {IF r.found THEN {r}
                            ELSE DfsRangeAll(g, start, todo \ {neighbor},
                                             r.visited, r.parent) :
                            r \in DfsAll(g, start, neighbor, visited,
                                         parent \cup {neighbor})} :
                neighbor \in todo}

\* reconstructCycle: the neighbours of node that end the walk (start) or
\* continue it (those with a parent entry).
ReconstructNext(g, start, parent, node) ==
    {n \in Neighbors(g, node) : n = start \/ n \in parent}

\* reconstructCycle: the node the walk goes to from each node other than
\* start if it goes on, 0 if it cannot.  With three packets a node other
\* than start has at most one neighbour that is neither start nor itself.
ReconstructSucc(g, start, parent) ==
    [x \in DetectorIds \cup {0} |->
        IF x = 0 \/ ReconstructNext(g, start, parent, x) \ {start} = {} THEN 0
        ELSE CHOOSE n \in ReconstructNext(g, start, parent, x) \ {start} : TRUE]

RECURSIVE Factorial(_)
Factorial(n) == IF n <= 1 THEN 1 ELSE n * Factorial(n - 1)

\* The node reached from node by going on j times, 0 once it cannot go on.
RECURSIVE Follow(_, _, _)
Follow(succ, node, j) ==
    IF j = 0 \/ node = 0 THEN node ELSE Follow(succ, succ[node], j - 1)

\* TransitivityChecker.reconstructCycle(start, parent): the slices it can
\* return.  In each pass of the loop the first neighbour in the order that
\* is start makes it return the cycle; the first that has a parent entry is
\* appended and becomes current; with no such neighbour, or once the cycle
\* is longer than CycleCap, the loop is left.  After as many steps as there
\* are packets a walk that goes on is on a loop whose length divides the
\* factorial of their number, so its later nodes repeat the earlier ones.
ReconstructCycle(g, start, parent) ==
    LET succ == ReconstructSucc(g, start, parent)
        next == ReconstructNext(g, start, parent, start)
        k == Cardinality(DetectorIds)
        period == Factorial(k)
        ends == {x \in DetectorIds :
                    \/ ReconstructNext(g, start, parent, x) = {}
                    \/ start \in ReconstructNext(g, start, parent, x)}
    IN (IF next = {} \/ start \in next THEN {<<start>>} ELSE {})
       \cup UNION {LET orbit == <<first>> \o [j \in 1..(k + period - 1) |->
                                                 Follow(succ, first, j)]
                       longest == IF orbit[k + 1] = 0 THEN k + 1 ELSE CycleCap + 1
                       walk == <<start>> \o
                                  [i \in 1..(longest - 1) |->
                                      IF i <= k THEN orbit[i]
                                      ELSE orbit[k + 1 + ((i - 1 - k) % period)]]
                   IN {SubSeq(walk, 1, len) :
                         len \in {l \in 2..longest :
                                    /\ walk[l] # 0
                                    /\ (l = CycleCap + 1 \/ walk[l] \in ends)}} :
                   first \in next \ {start}}

\* The loop "for neighbor := range tc.graph[start]" of findCycle over the
\* neighbours in todo, in any order: the slices findCycle can return.
RECURSIVE FindCycleRange(_, _, _, _)
FindCycleRange(g, start, todo, parent) ==
    IF todo = {} THEN {NoCycle}
    ELSE UNION {IF neighbor = start THEN {<<start>>}
                ELSE UNION {IF r.found
                            THEN ReconstructCycle(g, start, r.parent)
                            ELSE FindCycleRange(g, start, todo \ {neighbor}, r.parent) :
                            r \in DfsAll(g, start, neighbor, {start},
                                         parent \cup {neighbor})} :
                neighbor \in todo}

\* TransitivityChecker.findCycle(start): the slices it can return
FindCycleAll(g, start) == FindCycleRange(g, start, Neighbors(g, start), {})

\* ContradictionDetector.ProcessResponse(q, resp, nil, nil, false) for a
\* comparison, with the Cycle of the transitivity contradiction it appends
ProcessComparison(q, r) ==
    /\ ProcessResponse(q, r, "nil")
    /\ LET faster == IF r = "Packet1Faster" THEN q.PacketID ELSE q.PacketID2
           slower == IF r = "Packet1Faster" THEN q.PacketID2 ELSE q.PacketID
       IN IF r = "PacketsEqual"
          THEN lastCycle' = NoLog
          ELSE \E cycle \in FindCycleAll(graph \cup {<<faster, slower>>}, faster) :
                  lastCycle' = IF cycle = NoCycle THEN NoLog
                               ELSE [kind |-> "cycle", faster |-> faster,
                                     slower |-> slower, Cycle |-> cycle]
    /\ UNCHANGED <<lastAnswered, preReset>>

\* ContradictionDetector.Reset() between two verifications; the responses
\* recorded and the orderings claimed before it are kept aside
ResetBetween ==
    /\ DetectorReset
    /\ preReset' = [kind |-> "reset", history |-> ResponseHistory,
                    claims |-> strictClaims]
    /\ UNCHANGED <<lastAnswered, lastCycle>>

CyclesNext ==
    (\E q \in CompareQueries, r \in ComparisonResults : ProcessComparison(q, r))
       /\ UNCHANGED <<schedVars, trialVars, oracleVars, beliefVars, delayVars, otherVars>>

VerificationsNext ==
    \/ (\E q \in CompareQueries, r \in ComparisonResults :
            ProcessResponse(q, r, "nil"))
       /\ UNCHANGED <<schedVars, trialVars, oracleVars, beliefVars, delayVars, logVars, otherVars>>
    \/ ResetBetween
       /\ UNCHANGED <<schedVars, trialVars, oracleVars, beliefVars, delayVars, otherVars>>

\* C28: the cycle reported with a transitivity contradiction has exactly
\* the nodes of a directed cycle of the comparison graph that passes through
\* the edge just added.
C28_ReportedCycleIsReal ==
    lastCycle.kind = "cycle"
    => \E n \in 2..Cardinality(DetectorIds) :
          \E c \in [1..n -> DetectorIds] :
             /\ c[1] = lastCycle.faster
             /\ c[2] = lastCycle.slower
             /\ \A i, j \in 1..n : c[i] = c[j] => i = j
             /\ \A i \in 1..(n - 1) : <<c[i], c[i + 1]>> \in graph
             /\ <<c[n], c[1]>> \in graph
             /\ {c[i] : i \in 1..n}
                   = {lastCycle.Cycle[i] : i \in 1..Len(lastCycle.Cycle)}

\* C29: Reset leaves the comparison graph without edges and the commitment
\* map, the suspicion scores and the contradiction list empty, and the
\* first response after it raises no contradiction.
C29_ResetLeavesNoState ==
    [][/\ (lastCall.kind = "response" /\ lastCall'.kind = "none")
          => /\ graph' = {}
             /\ ResponseHistory' = EmptyMap
             /\ SuspicionScores' = EmptyMap
             /\ Contradictions' = <<>>
       /\ (preReset.kind = "reset" /\ lastCall.kind = "none"
              /\ lastCall'.kind = "response")
          => /\ ~lastCall'.found
             /\ Contradictions' = <<>>
             /\ \A e \in graph' : {e[1], e[2]}
                   = {lastCall'.query.PacketID, lastCall'.query.PacketID2}
      ]_vars

\* C29 witness: the first response after a Reset gives a query that was
\* answered before the Reset another answer, and closes a cycle with the
\* orderings claimed before the Reset.
C29_Witness ==
    /\ preReset.kind = "reset"
    /\ lastCall.kind = "response"
    /\ Cardinality(DOMAIN ResponseHistory) = 1
    /\ queryHash(lastCall.query) \in DOMAIN preReset.history
    /\ preReset.history[queryHash(lastCall.query)] # lastCall.answer
    /\ lastCall.answer # "PacketsEqual"
    /\ \E e \in graph : <<e[2], e[1]>> \in preReset.claims
    /\ Contradictions = <<>>

\* ------------------------------------------------------------------
\* StrategicOracle over its whole life: records arrive through
\* RecordTransmission, between FlagPackets calls, queries and Reset
\* (src/internal/nodes/station.go).  A record keeps the MaliciousDelay
\* the router reported for it (TransmissionRecord, query.go).
\* ------------------------------------------------------------------

MaxRecords == 3

\* A TransmissionRecord with its malicious delay
TxRecord(id, min, actual, malicious, delayed) ==
    [PacketID |-> id, MinDelay |-> min, ActualDelay |-> actual,
     MaliciousDelay |-> malicious, WasDelayed |-> delayed]

\* The records handed to RecordTransmission: an untargeted packet, a
\* targeted packet with a malicious delay, and a targeted packet whose
\* malicious delay was drawn as 0 and whose id a record already has.
TxRecords ==
    {TxRecord(1, 200, 300, 0, FALSE),
     TxRecord(2, 200, 1500, 1000, TRUE),
     TxRecord(1, 200, 250, 0, TRUE)}

\* the comparison queries put to the oracle while records arrive
RecordPairs == {<<1, 2>>, <<2, 1>>}

\* NewStrategicOracle(flagStrat, AnswerHonest, ...): no record yet
RecordsOracleInit ==
    /\ FlaggingStrat \in {"FlagNone", "FlagLowDelay", "FlagActualDelayed"}
    /\ AnsweringStrat = "AnswerHonest"
    /\ LowDelayPercentile \in IF FlaggingStrat = "FlagLowDelay" THEN {10, 50} ELSE {10}
    /\ GroundTruth = <<>>
    /\ flaggedPackets = {}
    /\ claimedMinDelays = EmptyMap
    /\ comparisonHistory = EmptyMap
    /\ QueriesAnswered = 0
    /\ LiesTold = 0
    /\ PacketsFlagged = 0
    /\ answers = NoAnswers

\* StrategicOracle.RecordTransmission(record)
OracleRecordTransmission(record) ==
    /\ Len(GroundTruth) < MaxRecords
    /\ GroundTruth' = Append(GroundTruth, record)
    /\ UNCHANGED <<FlaggingStrat, AnsweringStrat, LowDelayPercentile, flaggedPackets,
                   claimedMinDelays, comparisonHistory, QueriesAnswered, LiesTold,
                   PacketsFlagged, answers>>

RecordsNext ==
    \/ (\E record \in TxRecords : OracleRecordTransmission(record))
       /\ UNCHANGED <<schedVars, trialVars, detectorVars, beliefVars, delayVars, logVars, otherVars>>
    \/ CallFlagPackets
       /\ UNCHANGED <<schedVars, trialVars, detectorVars, beliefVars, delayVars, otherVars>>
    \/ (\E q \in RecordPairs : AskComparison(q[1], q[2]))
       /\ UNCHANGED <<schedVars, trialVars, detectorVars, beliefVars, delayVars, otherVars>>
    \/ CallOracleReset
       /\ UNCHANGED <<schedVars, trialVars, detectorVars, beliefVars, delayVars, otherVars>>

\* C25: after a FlagPackets call the flagged packets are those of no record under
\* FlagNone, of exactly the records with MaliciousDelay > 0 under
\* FlagActualDelayed, and of exactly the first floor(q * N) records of an
\* ascending order of ActualDelay under FlagLowDelay: every other record's
\* packet is not flagged; and PacketsFlagged is the number of flagged
\* records.
C25_FlaggedSetPrescribed ==
    [][(lastAnswered' # lastAnswered /\ lastAnswered'.kind = "flag")
       => LET N == Len(GroundTruth)
              flaggedRecords == {i \in 1..N : GroundTruth[i].PacketID \in flaggedPackets'}
          IN /\ FlaggingStrat = "FlagNone" => flaggedRecords = {}
             /\ FlaggingStrat = "FlagActualDelayed"
                   => flaggedRecords = {i \in 1..N : GroundTruth[i].MaliciousDelay > 0}
             /\ FlaggingStrat = "FlagLowDelay"
                   => /\ Cardinality(flaggedRecords) = (N * LowDelayPercentile) \div 100
                      /\ \A x \in flaggedRecords : \A y \in (1..N) \ flaggedRecords :
                            GroundTruth[x].ActualDelay <= GroundTruth[y].ActualDelay
             /\ PacketsFlagged' = Cardinality(flaggedRecords)
      ]_vars

\* C26: no step changes a record that is stored, and after every step the
\* ground truth holds at most one record per packet id.
C26_UniqueImmutableRecords ==
    [][/\ \A i \in 1..Len(GroundTruth) :
             /\ i <= Len(GroundTruth')
             /\ GroundTruth'[i] = GroundTruth[i]
       /\ \A i, j \in 1..Len(GroundTruth') :
             GroundTruth'[i].PacketID = GroundTruth'[j].PacketID => i = j
      ]_vars

\* ------------------------------------------------------------------
\* ConfidenceTracker with its BayesianTracker and SPRTTest
\* (src/internal/nodes/station.go).  Probabilities, suspicion and
\* likelihoods are in 1/1000; the SPRT works on logarithms in 1/1000.
\* ------------------------------------------------------------------

MaxResults == 3

PriorHonest == 500

\* the suspicion values a result carries: 0, 0.5 and 1.5
Suspicions == {0, 500, 1500}

\* The float64 values +Inf and NaN.  Every comparison with NaN is false.
FloatInf == 2147483647

FloatNaN == -1

\* the suspicion values Update can be called with: those above and -400.0,
\* for which math.Exp(-LambdaHonest * s) = math.Exp(800) overflows to +Inf
AnySuspicions == Suspicions \cup {-400000}

\* LambdaHonest * exp(-LambdaHonest * s) with LambdaHonest = 2.0, for the
\* values above and the suspicions the temporal check computes from
\* ObservedDelay (1.142, 1.333 and 4.0)
HonestLikelihood(s) ==
    CASE s = 0    -> 2000
      [] s = 500  -> 736
      [] s = 1142 -> 204
      [] s = 1333 -> 139
      [] s = 1500 -> 100
      [] s = 4000 -> 1
      [] s = -400000 -> FloatInf

\* 0.5*pLow + 0.5*pHigh, pHigh = LambdaDishonest * exp(-LambdaDishonest * s)
\* with LambdaDishonest = 0.5
DishonestLikelihood(s) ==
    CASE s = 0    -> 1250
      [] s = 500  -> 563
      [] s = 1142 -> 243
      [] s = 1333 -> 198
      [] s = 1500 -> 168
      [] s = 4000 -> 34
      [] s = -400000 -> FloatInf

\* log(p1 / p0) and log((1 - p1) / (1 - p0)) with p0 = 0.05, p1 = 0.40
LogLRSuspicious == 2079

LogLRClean == -460

SuspiciousThreshold == 300

LikelyThreshold == 950

\* NewSPRTTest(alpha, beta, theta): A = (1 - beta) / alpha and
\* B = beta / (1 - alpha), kept as log A and log B, for
\* alpha = beta = 0.05, for alpha = beta = 0.3 and for alpha = beta = 0.2
SprtBoundaries ==
    { [A |-> 2944, B |-> -2944], [A |-> 847, B |-> -847],
      [A |-> 1386, B |-> -1386] }

QueryResult(id, suspicion, contradiction, after) ==
    [QueryID |-> id, Suspicion |-> suspicion, Contradiction |-> contradiction,
     PHonestAfter |-> after]

\* NewConfidenceTracker: NewBayesianTracker(prior), NewSPRTTest(...)
BeliefInit ==
    /\ CurrentPHonest = PriorHonest
    /\ QueryHistory = <<>>
    /\ sprtBounds \in SprtBoundaries
    /\ LogLR = 0
    /\ NQueries = 0
    /\ Decision = ""
    /\ ContradictionsFound = 0
    /\ QueriesExecuted = 0
    /\ provenSeen = FALSE
    /\ bayesTerminal = -1

\* the tracker as the other specifications leave it
BeliefIdle ==
    /\ CurrentPHonest = PriorHonest
    /\ QueryHistory = <<>>
    /\ sprtBounds = [A |-> 2944, B |-> -2944]
    /\ LogLR = 0
    /\ NQueries = 0
    /\ Decision = ""
    /\ ContradictionsFound = 0
    /\ QueriesExecuted = 0
    /\ provenSeen = FALSE
    /\ bayesTerminal = -1

\* mutant of BayesianUpdate: the contradiction is recorded but the belief
\* goes through the likelihood update like any other result
BayesianUpdateNoCollapse(p, suspicion, contradiction) ==
    LET pResultIfHonest == HonestLikelihood(suspicion)
        pResultIfDishonest == DishonestLikelihood(suspicion)
        pResult == pResultIfHonest * p + pResultIfDishonest * (1000 - p)
    IN  IF pResult > 0 THEN (pResultIfHonest * p * 1000) \div pResult ELSE p

\* BayesianTracker.Update: the new CurrentPHonest.  With a belief that is
\* NaN pResult is NaN, and with likelihoods of +Inf it is Inf * 0 + Inf = NaN
\* for a belief of 0 or 1: "pResult > 0" is false and the belief is kept.
\* With likelihoods of +Inf and a belief strictly between 0 and 1 pResult is
\* +Inf and the new belief is Inf / Inf = NaN.
BayesianUpdate(p, suspicion, contradiction) ==
    IF contradiction
    THEN 0
    ELSE IF p = FloatNaN THEN p
    ELSE IF HonestLikelihood(suspicion) = FloatInf
    THEN (IF p = 0 \/ p = 1000 THEN p ELSE FloatNaN)
    ELSE LET pResultIfHonest == HonestLikelihood(suspicion)
             pResultIfDishonest == DishonestLikelihood(suspicion)
             pResult == pResultIfHonest * p + pResultIfDishonest * (1000 - p)
         IN  IF pResult > 0
             THEN (pResultIfHonest * p * 1000) \div pResult
             ELSE p

\* BayesianTracker.GetConfidence
GetConfidence(p) == 1000 - p

\* SPRTTest.Update: the new <<LogLR, NQueries, Decision>>
SPRTUpdate(logLR, n, decision, bounds, involvesSuspiciousPacket, observed) ==
    IF ~involvesSuspiciousPacket
    THEN <<logLR, n, decision>>
    ELSE LET logLRIncrement ==
                 IF observed THEN LogLRSuspicious ELSE LogLRClean
             lr == logLR + logLRIncrement
         IN  <<lr, n + 1,
               IF lr >= bounds.A THEN "REJECT_H0"
               ELSE IF lr <= bounds.B THEN "ACCEPT_H0"
               ELSE decision>>

\* ConfidenceTracker.ProcessResult
ProcessResult(queryID, suspicion, contradiction, involvesSuspicious) ==
    /\ QueriesExecuted < MaxResults
    /\ QueriesExecuted' = QueriesExecuted + 1
    /\ ContradictionsFound' =
           IF contradiction THEN ContradictionsFound + 1
           ELSE ContradictionsFound
    /\ CurrentPHonest' = BayesianUpdate(CurrentPHonest, suspicion, contradiction)
    /\ QueryHistory' = Append(QueryHistory,
           QueryResult(queryID, suspicion, contradiction, CurrentPHonest'))
    /\ LET u == SPRTUpdate(LogLR, NQueries, Decision, sprtBounds,
                           involvesSuspicious, suspicion > SuspiciousThreshold)
       IN  /\ LogLR' = u[1]
           /\ NQueries' = u[2]
           /\ Decision' = u[3]
    /\ provenSeen' = (provenSeen \/ contradiction)
    /\ bayesTerminal' =
           IF contradiction THEN 0
           ELSE IF bayesTerminal >= 0 THEN bayesTerminal + 1
           ELSE bayesTerminal
    /\ UNCHANGED sprtBounds

\* BayesianTracker.Reset
BayesianReset ==
    /\ QueryHistory # <<>>
    /\ CurrentPHonest' = PriorHonest
    /\ QueryHistory' = <<>>
    /\ bayesTerminal' = -1
    /\ UNCHANGED <<sprtBounds, LogLR, NQueries, Decision, ContradictionsFound,
                   QueriesExecuted, provenSeen>>

\* SPRTTest.Reset
SPRTReset ==
    /\ NQueries > 0
    /\ LogLR' = 0
    /\ NQueries' = 0
    /\ Decision' = ""
    /\ UNCHANGED <<CurrentPHonest, QueryHistory, sprtBounds, ContradictionsFound,
                   QueriesExecuted, provenSeen, bayesTerminal>>

\* mutant of GetVerdict: the SPRT decision is looked at before the
\* contradiction count
GetVerdictSprtFirst(found, decision, p) ==
    IF decision = "REJECT_H0" THEN <<"DISHONEST_STATISTICAL", GetConfidence(p)>>
    ELSE IF decision = "ACCEPT_H0" THEN <<"HONEST", p>>
    ELSE IF found > 0 THEN <<"DISHONEST_PROVEN", 1000>>
    ELSE IF GetConfidence(p) >= LikelyThreshold
         THEN <<"DISHONEST_LIKELY", GetConfidence(p)>>
    ELSE IF p >= LikelyThreshold THEN <<"HONEST_LIKELY", p>>
    ELSE <<"INCONCLUSIVE", 500>>

\* ConfidenceTracker.GetVerdict: <<verdict, confidence>>
GetVerdict(found, decision, p) ==
    IF found > 0 THEN <<"DISHONEST_PROVEN", 1000>>
    ELSE IF decision = "REJECT_H0" THEN <<"DISHONEST_STATISTICAL", GetConfidence(p)>>
    ELSE IF decision = "ACCEPT_H0" THEN <<"HONEST", p>>
    ELSE IF GetConfidence(p) >= LikelyThreshold
         THEN <<"DISHONEST_LIKELY", GetConfidence(p)>>
    ELSE IF p >= LikelyThreshold THEN <<"HONEST_LIKELY", p>>
    ELSE <<"INCONCLUSIVE", 500>>

BeliefNext ==
    \/ (\E s \in Suspicions, c \in BOOLEAN, i \in BOOLEAN :
            ProcessResult(QueriesExecuted + 1, s, c, i))
       /\ UNCHANGED <<schedVars, trialVars, oracleVars, detectorVars, delayVars, logVars, otherVars>>
    \/ BayesianReset
       /\ UNCHANGED <<schedVars, trialVars, oracleVars, detectorVars, delayVars, logVars, otherVars>>
    \/ SPRTReset
       /\ UNCHANGED <<schedVars, trialVars, oracleVars, detectorVars, delayVars, logVars, otherVars>>

\* Update called with any suspicion value
NumericNext ==
    \/ (\E s \in AnySuspicions, c \in BOOLEAN, i \in BOOLEAN :
            ProcessResult(QueriesExecuted + 1, s, c, i))
       /\ UNCHANGED <<schedVars, trialVars, oracleVars, detectorVars, delayVars, logVars, otherVars>>
    \/ BayesianReset
       /\ UNCHANGED <<schedVars, trialVars, oracleVars, detectorVars, delayVars, logVars, otherVars>>

\* ------------------------------------------------------------------
\* Claims about the ConfidenceTracker
\* ------------------------------------------------------------------

\* C31: after every Bayesian update the probability of honesty and the
\* probability of dishonesty (GetConfidence) are numbers in [0, 1] that sum
\* to 1.
C31_BeliefNormalised ==
    /\ CurrentPHonest # FloatNaN
    /\ CurrentPHonest \in 0..1000
    /\ 1000 - CurrentPHonest \in 0..1000
    /\ \A i \in 1..Len(QueryHistory) :
          /\ QueryHistory[i].PHonestAfter # FloatNaN
          /\ QueryHistory[i].PHonestAfter \in 0..1000

\* C14: once a processed result carried a contradiction, the verdict is
\* DISHONEST_PROVEN with confidence 1.0, whatever the SPRT decision and the
\* Bayesian belief have become since.
C14_ProvenIsSticky ==
    provenSeen =>
        GetVerdict(ContradictionsFound, Decision, CurrentPHonest)
            = <<"DISHONEST_PROVEN", 1000>>

\* C14 witness: a contradiction was processed, later results drove the SPRT
\* to accept honesty and the Bayesian tracker was reset to its prior.
C14_Witness ==
    /\ provenSeen
    /\ Decision = "ACCEPT_H0"
    /\ CurrentPHonest = PriorHonest
    /\ QueriesExecuted = MaxResults
    /\ GetVerdict(ContradictionsFound, Decision, CurrentPHonest)[1]
           = "DISHONEST_PROVEN"

\* C15: after an update with a contradiction the probability of honesty is
\* 0 and every later update without a contradiction leaves it at 0.
C15_BayesTerminal ==
    bayesTerminal >= 0 => CurrentPHonest = 0

\* C15 witness: two updates without a contradiction, the last with a
\* positive suspicion, followed the update with the contradiction.
C15_Witness ==
    /\ bayesTerminal = 2
    /\ QueryHistory[Len(QueryHistory)].Suspicion > 0
    /\ ~QueryHistory[Len(QueryHistory)].Contradiction
    /\ QueryHistory[Len(QueryHistory)].PHonestAfter = 0

\* C30: a processed result either leaves LogLR, NQueries and Decision as
\* they were (the query involved no suspicious packet), or counts as an
\* SPRT update after which Decision is REJECT_H0 exactly when
\* exp(LogLR) >= A, ACCEPT_H0 exactly when exp(LogLR) <= B, and empty
\* otherwise.
C30_DecisionByThresholds ==
    [][QueriesExecuted' = QueriesExecuted + 1
       => \/ /\ NQueries' = NQueries
             /\ LogLR' = LogLR
             /\ Decision' = Decision
          \/ /\ NQueries' = NQueries + 1
             /\ Decision' = IF LogLR' >= sprtBounds.A THEN "REJECT_H0"
                            ELSE IF LogLR' <= sprtBounds.B THEN "ACCEPT_H0"
                            ELSE ""
      ]_vars

\* ------------------------------------------------------------------
\* DelayModel (src/internal/network/delay_model.go) on its own:
\* Initialise, GetBaseDelay, Reset.  Times are in ticks, delays in units.
\* ------------------------------------------------------------------

MaxDraws == 3

MaxDuration == 3

Durations == 0..MaxDuration

QueryTimes == 0..(MaxDuration + 1)

\* -math.Log(1.0 - rand.Float64()) / dm.TransitionRate, in ticks:
\* rand.Float64() is in [0, 1) and a draw of 0 gives an inter-arrival of 0
InterArrivals == {0, 1, 2}

\* rand.Float64(), in halves: 0 and 1/2
UniformDraws == {0, 1}

\* the configurations NewDelayModelConfig is given: BaseDelayMin,
\* BaseDelayMax with BaseDelayMin <= BaseDelayMax
DelayModelConfigs ==
    { [BaseDelayMin |-> 2, BaseDelayMax |-> 2],
      [BaseDelayMin |-> 2, BaseDelayMax |-> 6] }

\* NewDelayModelConfig(cfg)
NewDelayModelConfig(cfg) ==
    [BaseDelayMin |-> cfg.BaseDelayMin, BaseDelayMax |-> cfg.BaseDelayMax,
     transitions |-> <<>>, initialised |-> FALSE]

NoDelayCall == [kind |-> "none"]

DelayInit ==
    /\ dm \in {NewDelayModelConfig(cfg) : cfg \in DelayModelConfigs}
    /\ dmLast = NoDelayCall

\* the delay model as the other specifications leave it
DelayIdle ==
    /\ dm = NewDelayModelConfig([BaseDelayMin |-> 2, BaseDelayMax |-> 6])
    /\ dmLast = NoDelayCall

\* mutant of sampleBaseDelay: the draw scales BaseDelayMax instead of the
\* width of the support
sampleBaseDelayScaleMax(d) ==
    { d.BaseDelayMin + (u * d.BaseDelayMax) \div 2 : u \in UniformDraws }

\* DelayModel.sampleBaseDelay: the values it can return
sampleBaseDelay(d) ==
    { d.BaseDelayMin + (u * (d.BaseDelayMax - d.BaseDelayMin)) \div 2 :
          u \in UniformDraws }

PathTransition(time, base) == [time |-> time, base |-> base]

\* the loop of DelayModel.Initialise from currentTime on: the lists it can
\* end with within n draws of the inter-arrival time
RECURSIVE InitialiseLoop(_, _, _, _, _)
InitialiseLoop(d, currentTime, duration, tr, n) ==
    IF ~(currentTime < duration) THEN {tr}
    ELSE IF n = 0 THEN {}
    ELSE UNION { InitialiseLoop(d, currentTime + interArrival, duration,
                     IF currentTime + interArrival < duration
                     THEN Append(tr, PathTransition(currentTime + interArrival, b))
                     ELSE tr,
                     n - 1) :
                 interArrival \in InterArrivals, b \in sampleBaseDelay(d) }

\* DelayModel.Initialise(duration): the transition lists it can build
InitialiseLists(d, duration) ==
    UNION { InitialiseLoop(d, 0, duration, <<PathTransition(0, b)>>, MaxDraws) :
                b \in sampleBaseDelay(d) }

\* DelayModel.Initialise(duration)
Initialise(duration) ==
    /\ \E tr \in InitialiseLists(dm, duration) :
           dm' = [dm EXCEPT !.transitions = tr, !.initialised = TRUE]
    /\ dmLast' = [kind |-> "Initialise", duration |-> duration]

\* DelayModel.GetBaseDelay(t): the values it can return
BaseDelayAt(d, t) ==
    IF ~d.initialised \/ Len(d.transitions) = 0
    THEN sampleBaseDelay(d)
    ELSE {GetBaseDelay(d.transitions, t)}

\* a call of DelayModel.GetBaseDelay(t)
CallGetBaseDelay(t) ==
    /\ \E v \in BaseDelayAt(dm, t) :
           dmLast' = [kind |-> "GetBaseDelay", t |-> t, value |-> v,
                      initialised |-> dm.initialised]
    /\ dm' = dm

\* DelayModel.Reset
DelayReset ==
    /\ dm.initialised
    /\ dm' = [dm EXCEPT !.transitions = <<>>, !.initialised = FALSE]
    /\ dmLast' = [kind |-> "Reset"]

DelayNext ==
    \/ (\E duration \in Durations : Initialise(duration))
       /\ UNCHANGED <<schedVars, trialVars, oracleVars, detectorVars, beliefVars, logVars, otherVars>>
    \/ (\E t \in QueryTimes : CallGetBaseDelay(t))
       /\ UNCHANGED <<schedVars, trialVars, oracleVars, detectorVars, beliefVars, logVars, otherVars>>
    \/ DelayReset
       /\ UNCHANGED <<schedVars, trialVars, oracleVars, detectorVars, beliefVars, logVars, otherVars>>

\* ------------------------------------------------------------------
\* Claims about the DelayModel
\* ------------------------------------------------------------------

\* C19: after Initialise(duration) the transition list is sorted strictly
\* increasing by time and its first transition has time 0.
C19_StrictlySorted ==
    dm.initialised =>
        /\ Len(dm.transitions) >= 1
        /\ dm.transitions[1].time = 0
        /\ \A i, j \in 1..Len(dm.transitions) :
               i < j => dm.transitions[i].time < dm.transitions[j].time

\* C18: on an initialised model GetBaseDelay(t) is piecewise constant over
\* the transition list: at a transition time it returns that transition's
\* base delay, strictly between two adjacent transitions the earlier one's,
\* and after the last transition the last one's.
C18_PiecewiseConstant ==
    (dmLast.kind = "GetBaseDelay" /\ dm.initialised) =>
        LET tr == dm.transitions
            n == Len(tr)
        IN  /\ \A i \in 1..n :
                   dmLast.t = tr[i].time => dmLast.value = tr[i].base
            /\ \A i \in 1..(n - 1) :
                   (tr[i].time < dmLast.t /\ dmLast.t < tr[i + 1].time)
                       => dmLast.value = tr[i].base
            /\ dmLast.t > tr[n].time => dmLast.value = tr[n].base

HonestGroundTruths ==
    { <<Rec(1, m1, ObservedDelay[1], FALSE), Rec(2, m2, ObservedDelay[2], FALSE),
        Rec(3, m3, ObservedDelay[3], FALSE)>> :
          m1 \in {200, 290}, m2 \in {200, 500}, m3 \in {200, 800} }

\* NewStrategicOracle(FlagNone, AnswerHonest, ...) after an honest simulation
HonestOracleInit ==
    /\ FlaggingStrat = "FlagNone"
    /\ AnsweringStrat = "AnswerHonest"
    /\ LowDelayPercentile = 10
    /\ GroundTruth \in HonestGroundTruths
    /\ flaggedPackets = {}
    /\ claimedMinDelays = EmptyMap
    /\ comparisonHistory = EmptyMap
    /\ QueriesAnswered = 0
    /\ LiesTold = 0
    /\ PacketsFlagged = 0
    /\ answers = NoAnswers

\* The records handed to the detector with a comparison: both present,
\* sent within the time window or not.
OverlapModes == {"overlap", "apart"}

\* One round of the execution loop: ask the oracle, feed (query, response,
\* record_a, record_b, time_overlap) to the detector, feed the resulting
\* (suspicion, contradiction_flag, involves_suspicious) to the belief
\* engine; the loop breaks once a contradiction was found.
VerifyQuery(q, mode, involvesSuspicious) ==
    /\ ContradictionsFound = 0
    /\ AnswerComparison(q.PacketID, q.PacketID2)
    /\ LET key == HistoryKey(q.PacketID, q.PacketID2)
           reverseKey == HistoryKey(q.PacketID2, q.PacketID)
           r == IF key \in DOMAIN comparisonHistory'
                THEN comparisonHistory'[key]
                ELSE ReverseComparison(comparisonHistory'[reverseKey])
       IN  ProcessResponse(q, r, mode)
    /\ ProcessResult(QueriesExecuted + 1, lastCall'.suspicion, lastCall'.found,
                     involvesSuspicious)

HonestNext ==
    (\E q \in CompareQueries, mode \in OverlapModes, i \in BOOLEAN :
         VerifyQuery(q, mode, i))
    /\ UNCHANGED <<schedVars, trialVars, delayVars, logVars, otherVars>>

\* C16: with an honest network (no targeting, FlagNone, AnswerHonest) the
\* detector never records a definitive contradiction and the verdict is
\* never DISHONEST_PROVEN, whatever the ground truth and the queries.
C16_HonestNeverProven ==
    /\ \A i \in 1..Len(Contradictions) : ~Definitive(Contradictions[i])
    /\ GetVerdict(ContradictionsFound, Decision, CurrentPHonest)[1]
           # "DISHONEST_PROVEN"

\* ------------------------------------------------- the stopping rule

MaxLoopQueries == 2      \* the largest max_queries the loop is run with

\* VerificationConfig.TargetConfidence, in 1/1000
TargetConfidence == 990

\* mutant of ShouldContinue: the cap is compared with > instead of >=
ShouldContinuePastCap(p, history, targetConfidence, cap) ==
    IF Len(history) > cap THEN <<FALSE, "MAX_QUERIES_REACHED">>
    ELSE IF p # FloatNaN /\ p <= 1000 - targetConfidence
         THEN <<FALSE, "DISHONEST_DETECTED">>
    ELSE IF p # FloatNaN /\ p >= targetConfidence
         THEN <<FALSE, "HONEST_CONFIRMED">>
    ELSE <<TRUE, "CONTINUE">>

\* BayesianTracker.ShouldContinue: <<continue, reason>>
ShouldContinue(p, history, targetConfidence, cap) ==
    IF Len(history) >= cap THEN <<FALSE, "MAX_QUERIES_REACHED">>
    ELSE IF p # FloatNaN /\ p <= 1000 - targetConfidence
         THEN <<FALSE, "DISHONEST_DETECTED">>
    ELSE IF p # FloatNaN /\ p >= targetConfidence
         THEN <<FALSE, "HONEST_CONFIRMED">>
    ELSE <<TRUE, "CONTINUE">>

\* the execution loop starts with max_queries taken from the configuration
LoopInit ==
    /\ maxQueries \in 0..MaxLoopQueries
    /\ stopReason = ""

\* One pass of the execution loop that issues a query: the stopping rule
\* lets the loop continue and no definitive contradiction was found.
LoopQuery(q, mode, involvesSuspicious) ==
    /\ stopReason = ""
    /\ ShouldContinue(CurrentPHonest, QueryHistory, TargetConfidence, maxQueries)[1]
    /\ VerifyQuery(q, mode, involvesSuspicious)
    /\ UNCHANGED loopVars

\* The execution loop halts: a definitive contradiction appeared, or the
\* stopping rule refuses to continue.
LoopStop ==
    /\ stopReason = ""
    /\ \/ ContradictionsFound > 0
       \/ ~ShouldContinue(CurrentPHonest, QueryHistory, TargetConfidence, maxQueries)[1]
    /\ stopReason' =
           IF ContradictionsFound > 0 THEN "CONTRADICTION"
           ELSE ShouldContinue(CurrentPHonest, QueryHistory, TargetConfidence, maxQueries)[2]
    /\ UNCHANGED <<maxQueries, oracleVars, detectorVars, beliefVars>>

LoopNext ==
    \/ (\E q \in CompareQueries, mode \in OverlapModes, i \in BOOLEAN : LoopQuery(q, mode, i))
       /\ UNCHANGED <<schedVars, trialVars, delayVars, logVars, sampleVars, verifierVars, stepVars>>
    \/ LoopStop
       /\ UNCHANGED <<schedVars, trialVars, delayVars, logVars, sampleVars, verifierVars, stepVars>>

\* C32: with max_queries = 0 the stopping rule refuses to continue before
\* any query is issued: the loop stops for MAX_QUERIES_REACHED at most, the
\* oracle has answered nothing, no result was processed, and the verdict on
\* the untouched belief state is INCONCLUSIVE.
C32_ZeroQueriesInconclusive ==
    maxQueries = 0 =>
        /\ stopReason \in {"", "MAX_QUERIES_REACHED"}
        /\ QueriesAnswered = 0
        /\ QueriesExecuted = 0
        /\ Len(QueryHistory) = 0
        /\ GetVerdict(ContradictionsFound, Decision, CurrentPHonest)[1] = "INCONCLUSIVE"

\* C32 witness: the loop configured with max_queries = 0 has stopped
C32_Witness ==
    /\ maxQueries = 0
    /\ stopReason = "MAX_QUERIES_REACHED"
    /\ QueriesAnswered = 0

\* ------------------------------------------------- packet sampling

MaxSampleCalls == 2      \* calls of ShouldSample and Sample
BatchPackets == 2        \* packets of the batch

\* the secret keys and the sample rates (in 1/1000) of the calls
SecretKeys == {"k1", "k2"}
SampleRates == {100, 500}

\* Packet.CreationTime, in 0.0000001 s
CreationTimes == {10, 27}

\* fmt.Sprintf("%f", t): six decimals, so the time in microseconds, rounded
FormatTime(t) == (t + 5) \div 10

\* the bytes of the secret key as a number
KeyCode(secretKey) == IF secretKey = "k1" THEN 17 ELSE 91

\* binary.BigEndian.Uint32(sha256.Sum256(data)[:4]) / ^uint32(0), in 1/1000,
\* for data = "id|time|key".  SHA-256 is represented by a fixed mixing
\* function of the formatted data.
Sha256Normalised(id, formattedTime, secretKey) ==
    (id * 7919 + formattedTime * 104729 + KeyCode(secretKey) * 1299709) % 1000

\* mutant of ShouldSample: a packet the network delayed is never sampled
ShouldSampleUndelayed(p, secretKey, sampleRate) ==
    /\ ~p.IsDelayed
    /\ Sha256Normalised(p.ID, FormatTime(p.CreationTime), secretKey) < sampleRate

\* Packet.ShouldSample
ShouldSample(p, secretKey, sampleRate) ==
    Sha256Normalised(p.ID, FormatTime(p.CreationTime), secretKey) < sampleRate

\* NewPacket(id, src, time)
NewPacket(id, time) ==
    [ID |-> id, CreationTime |-> time, ReceivedTime |-> 0, IsDelayed |-> FALSE]

\* a batch of NewPackets, no call made yet
SampleInit ==
    /\ \E t \in CreationTimes \X CreationTimes :
          batch = [i \in 1..BatchPackets |-> NewPacket(i, t[i])]
    /\ sampled = [kind |-> "calls", calls |-> <<>>]

\* what the network holds beside the four inputs when p is sampled: "fresh"
\* while the packet is as NewPacket made it and the oracle has neither
\* flagged nor answered, "changed" once the packet was delayed, packets are
\* flagged and a query was answered
SampleContext(p) ==
    IF p.ReceivedTime = 0 /\ ~p.IsDelayed /\ flaggedPackets = {} /\ QueriesAnswered = 0
    THEN "fresh"
    ELSE IF p.IsDelayed /\ flaggedPackets # {} /\ QueriesAnswered > 0
    THEN "changed"
    ELSE "mixed"

\* what a call of ShouldSample on p is recorded as: its inputs, its result
\* and what the network held when it was made
SampleCall(p, secretKey, rate) ==
    [id |-> p.ID, time |-> p.CreationTime, key |-> secretKey, rate |-> rate,
     result |-> ShouldSample(p, secretKey, rate), context |-> SampleContext(p)]

\* p.ShouldSample(secretKey, sampleRate) on packet i of the batch
CallShouldSample(i, secretKey, rate) ==
    /\ Len(sampled.calls) < MaxSampleCalls
    /\ sampled' = [sampled EXCEPT !.calls = Append(@, SampleCall(batch[i], secretKey, rate))]
    /\ UNCHANGED batch

\* PacketBatch.Sample(secretKey, rate): one ShouldSample call per packet of
\* the batch, in batch order
CallSample(secretKey, rate) ==
    /\ Len(sampled.calls) + Len(batch) <= MaxSampleCalls
    /\ sampled' = [sampled EXCEPT !.calls =
           @ \o [i \in 1..Len(batch) |-> SampleCall(batch[i], secretKey, rate)]]
    /\ UNCHANGED batch

\* The simulation fills in the hidden fields of a packet of the batch (the
\* batch holds pointers).
PacketDelivered(i, delayed) ==
    /\ batch[i].ReceivedTime = 0
    /\ batch' = [batch EXCEPT ![i].ReceivedTime = batch[i].CreationTime + 500,
                              ![i].IsDelayed = delayed]
    /\ UNCHANGED sampled

\* the oracle beside the batch: it flags every delayed packet
SampledOracleInit ==
    /\ OracleInit
    /\ FlaggingStrat = "FlagActualDelayed"
    /\ AnsweringStrat = "AnswerHonest"

SampleNext ==
    \/ (\E i \in 1..BatchPackets, k \in SecretKeys, r \in SampleRates : CallShouldSample(i, k, r))
       /\ UNCHANGED <<schedVars, trialVars, oracleVars, detectorVars, beliefVars, delayVars, logVars, loopVars, verifierVars, stepVars>>
    \/ (\E k \in SecretKeys, r \in SampleRates : CallSample(k, r))
       /\ UNCHANGED <<schedVars, trialVars, oracleVars, detectorVars, beliefVars, delayVars, logVars, loopVars, verifierVars, stepVars>>
    \/ (\E i \in 1..BatchPackets, d \in BOOLEAN : PacketDelivered(i, d))
       /\ UNCHANGED <<schedVars, trialVars, oracleVars, detectorVars, beliefVars, delayVars, logVars, loopVars, verifierVars, stepVars>>
    \/ OracleFlagPackets
       /\ UNCHANGED <<schedVars, trialVars, detectorVars, beliefVars, delayVars, logVars, otherVars>>
    \/ (QueriesAnswered = 0 /\ AnswerComparison(1, 2))
       /\ UNCHANGED <<schedVars, trialVars, detectorVars, beliefVars, delayVars, logVars, otherVars>>

\* C33: whether a packet is sampled is a function of (id, sent time, secret,
\* rate): any two calls with the same four inputs returned the same result,
\* whatever the packet's other fields, the oracle's flags and the oracle's
\* answers were at each call.
C33_SamplingIsPure ==
    sampled.kind = "calls" =>
        \A i, j \in 1..Len(sampled.calls) :
            LET a == sampled.calls[i]
                b == sampled.calls[j]
            IN  (a.id = b.id /\ a.time = b.time /\ a.key = b.key /\ a.rate = b.rate)
                    => a.result = b.result

\* C33 witness: a packet was sampled twice with the same inputs, before and
\* after the network delayed it, the oracle flagged packets and answered a
\* query; and some call selected a packet and some call did not.
C33_Witness ==
    /\ sampled.kind = "calls"
    /\ \E i, j \in 1..Len(sampled.calls) :
          LET a == sampled.calls[i]
              b == sampled.calls[j]
          IN  /\ i < j
              /\ a.id = b.id /\ a.time = b.time /\ a.key = b.key /\ a.rate = b.rate
              /\ a.result
              /\ a.context = "fresh" /\ b.context = "changed"

\* --------------------------------- package verification: NetworkOracle

MaxTransmissions == 2    \* transmissions recorded before the verification

\* Times are in seconds, delays and the other float64 answers in 0.001.

\* the paths of the scenario: Verifier.Paths
PathInfos ==
    <<[Name |-> "path_leo_fast", BaseDelay |-> 100, IsShortest |-> TRUE],
      [Name |-> "path_geo_slow", BaseDelay |-> 800, IsShortest |-> FALSE]>>

\* NetworkOracle.ShortestPath and ShortestDelay
ShortestPath == "path_leo_fast"
ShortestDelay == 100

\* NetworkOracle.LieProbability, in 1/1000
LieProbability == 500

\* Verifier.MinPossibleDelay and MaxJitter
MinPossibleDelay == 50
VerifierMaxJitter == 2500

\* the 3.0 s added to base delay and jitter for the largest expected delay
ExpectedMargin == 3000

LyingStrategies ==
    {"HONEST", "ALWAYS_CLAIM_SHORTEST", "RANDOM_LIES", "MINIMIZE_DELAY", "SMART"}

\* the strategies of the scenarios the verification is run against
ScenarioStrategies == {"HONEST", "ALWAYS_CLAIM_SHORTEST", "MINIMIZE_DELAY", "SMART"}

\* the values one Answer draws: those of rand.Float64 (first and second
\* call, in 1/1000) and that of rand.Intn(5)
AnswerDraws == {<<0, 0, 0>>, <<0, 999, 4>>, <<999, 0, 0>>}

\* the TimeIntervals of the queries
TimeInterval(start, end) == [Start |-> start, End |-> end]
IntervalLists ==
    {<<TimeInterval(0, 5)>>, <<TimeInterval(0, 5), TimeInterval(5, 10)>>}

\* TimeInterval.Contains
Contains(ti, t) == t >= ti.Start /\ t <= ti.End

\* the TransmissionRecord the router hands out for packet id: the path it
\* took, the delay on it and the time it was sent
TransmissionRecord(id, sent, path, delay) ==
    [PacketID |-> id, SentTime |-> sent, PathUsed |-> path,
     ActualDelay |-> delay, IsShortestPath |-> (path = ShortestPath)]

\* the transmissions of packet id: on the fast path with a delay below the
\* physical minimum, at the base delay or beyond the largest expected
\* delay, or on the slow path at its base delay; sent in the first interval
\* or on the border of the two
Transmissions(id) ==
    {TransmissionRecord(id, sent, "path_leo_fast", d) : sent \in {1, 5}, d \in {40, 100, 6000}}
    \cup {TransmissionRecord(id, sent, "path_geo_slow", 800) : sent \in {1, 5}}

\* NewNetworkOracle(strategy, lieProbability, shortestPath, shortestDelay)
NewVerificationOracle(strategy) ==
    [Strategy |-> strategy, GroundTruth |-> <<>>, claimedPaths |-> <<>>,
     claimedDelays |-> <<>>, claimedShortest |-> <<>>,
     QueriesAnswered |-> 0, LiesTold |-> 0]

\* NetworkOracle.FindRecord: the index of the first record of the packet
\* sent in the interval, 0 for nil.  Verifier.FindGroundTruth is the same
\* search in the verifier's records.
FindRecord(records, packetID, interval) ==
    LET found == {i \in 1..Len(records) :
                     /\ records[i].PacketID = packetID
                     /\ Contains(interval, records[i].SentTime)}
    IN  IF found = {} THEN 0
        ELSE CHOOSE i \in found : \A j \in found : i <= j

\* m[k] = v
MapSet(m, k, v) == [x \in DOMAIN m \cup {k} |-> IF x = k THEN v ELSE m[x]]

\* the oracle after an answer function and the answer it returned
Answered(o, answer) == [o |-> o, answer |-> answer]

\* o.LiesTold++ if lied
Lied(o, lied) == IF lied THEN [o EXCEPT !.LiesTold = @ + 1] ELSE o

\* NetworkOracle.answerShortestPath; u is the value of rand.Float64
answerShortestPath(o, q, u) ==
    LET i == FindRecord(o.GroundTruth, q.PacketID, q.Interval)
        truth == o.GroundTruth[i].IsShortestPath
        claim(b) == [o EXCEPT !.claimedShortest = MapSet(@, q.PacketID, b)]
    IN  IF i = 0 THEN Answered(o, FALSE)
        ELSE CASE o.Strategy = "HONEST" -> Answered(o, truth)
               [] o.Strategy \in {"ALWAYS_CLAIM_SHORTEST", "MINIMIZE_DELAY"} ->
                    Answered(Lied(claim(TRUE), ~truth), TRUE)
               [] o.Strategy = "RANDOM_LIES" ->
                    IF u < LieProbability
                    THEN Answered(Lied(claim(~truth), TRUE), ~truth)
                    ELSE Answered(claim(truth), truth)
               [] o.Strategy = "SMART" ->
                    IF q.PacketID \in DOMAIN o.claimedPaths
                    THEN Answered(o, o.claimedPaths[q.PacketID] = ShortestPath)
                    ELSE IF u < LieProbability
                    THEN Answered(Lied(claim(~truth), TRUE), ~truth)
                    ELSE Answered(claim(truth), truth)

\* NetworkOracle.answerDelay; u1 and u2 are the values of rand.Float64
answerDelay(o, q, u1, u2) ==
    LET i == FindRecord(o.GroundTruth, q.PacketID, q.Interval)
        record == o.GroundTruth[i]
        truth == record.ActualDelay
        claim(d) == [o EXCEPT !.claimedDelays = MapSet(@, q.PacketID, d)]
        faked == ShortestDelay + (u1 * 1500) \div 1000
        random == IF truth + (u2 - 500) * 2 < 100 THEN 100 ELSE truth + (u2 - 500) * 2
        halved == IF truth \div 2 < ShortestDelay THEN ShortestDelay ELSE truth \div 2
    IN  IF i = 0 THEN Answered(o, -1000)
        ELSE CASE o.Strategy = "HONEST" -> Answered(o, truth)
               [] o.Strategy = "ALWAYS_CLAIM_SHORTEST" ->
                    IF ~record.IsShortestPath
                    THEN Answered(Lied(claim(faked), faked # truth), faked)
                    ELSE Answered(claim(truth), truth)
               [] o.Strategy = "RANDOM_LIES" ->
                    IF u1 < LieProbability
                    THEN Answered(Lied(claim(random), TRUE), random)
                    ELSE Answered(claim(truth), truth)
               [] o.Strategy = "MINIMIZE_DELAY" ->
                    Answered(Lied(claim(halved), halved # truth), halved)
               [] o.Strategy = "SMART" ->
                    IF /\ q.PacketID \in DOMAIN o.claimedPaths
                       /\ o.claimedPaths[q.PacketID] = ShortestPath
                       /\ ~record.IsShortestPath
                    THEN Answered(Lied(claim(faked), TRUE), faked)
                    ELSE Answered(claim(truth), truth)

\* mutant of answerPathUsed: every strategy names the shortest path
answerPathUsedShortest(o, q, u) ==
    IF FindRecord(o.GroundTruth, q.PacketID, q.Interval) = 0
    THEN Answered(o, "UNKNOWN")
    ELSE Answered(o, ShortestPath)

\* NetworkOracle.answerPathUsed; u is the value of rand.Float64
answerPathUsed(o, q, u) ==
    LET i == FindRecord(o.GroundTruth, q.PacketID, q.Interval)
        truth == o.GroundTruth[i].PathUsed
        claim(p) == [o EXCEPT !.claimedPaths = MapSet(@, q.PacketID, p)]
        other == IF truth = ShortestPath THEN "OTHER_PATH" ELSE ShortestPath
    IN  IF i = 0 THEN Answered(o, "UNKNOWN")
        ELSE CASE o.Strategy = "HONEST" -> Answered(o, truth)
               [] o.Strategy \in {"ALWAYS_CLAIM_SHORTEST", "MINIMIZE_DELAY"} ->
                    Answered(Lied(claim(ShortestPath), truth # ShortestPath), ShortestPath)
               [] o.Strategy = "RANDOM_LIES" ->
                    IF u < LieProbability
                    THEN Answered(Lied(claim(other), TRUE), other)
                    ELSE Answered(claim(truth), truth)
               [] o.Strategy = "SMART" ->
                    IF /\ q.PacketID \in DOMAIN o.claimedShortest
                       /\ o.claimedShortest[q.PacketID]
                    THEN Answered(Lied(claim(ShortestPath), truth # ShortestPath), ShortestPath)
                    ELSE Answered(claim(truth), truth)

\* NetworkOracle.answerPacketCount, the count in 0.001; u is the value of
\* rand.Float64 and k that of rand.Intn(5)
answerPacketCount(o, q, u, k) ==
    LET inInterval == {i \in 1..Len(o.GroundTruth) : Contains(q.Interval, o.GroundTruth[i].SentTime)}
        truth == Cardinality({i \in inInterval : o.GroundTruth[i].PathUsed = q.PathName})
        total == Cardinality(inInterval)
        random == IF truth + k - 2 < 0 THEN 0 ELSE truth + k - 2
    IN  CASE o.Strategy = "ALWAYS_CLAIM_SHORTEST" ->
               IF q.PathName = ShortestPath
               THEN Answered(Lied(o, total # truth), total * 1000)
               ELSE Answered(Lied(o, truth > 0), 0)
          [] o.Strategy = "RANDOM_LIES" ->
               IF u < LieProbability
               THEN Answered(Lied(o, random # truth), random * 1000)
               ELSE Answered(o, truth * 1000)
          [] OTHER -> Answered(o, truth * 1000)

\* NetworkOracle.Answer: the oracle after the call and the Response
Answer(o, q, u1, u2, k) ==
    LET counted == [o EXCEPT !.QueriesAnswered = @ + 1]
        resp == [QueryID |-> q.ID, Query |-> q, BoolAnswer |-> FALSE,
                 FloatAnswer |-> 0, StringAnswer |-> ""]
    IN  CASE q.Type = "SHORTEST_PATH" ->
               LET r == answerShortestPath(counted, q, u1)
               IN  [o |-> r.o, resp |-> [resp EXCEPT !.BoolAnswer = r.answer]]
          [] q.Type = "DELAY" ->
               LET r == answerDelay(counted, q, u1, u2)
               IN  [o |-> r.o, resp |-> [resp EXCEPT !.FloatAnswer = r.answer]]
          [] q.Type = "PATH_USED" ->
               LET r == answerPathUsed(counted, q, u1)
               IN  [o |-> r.o, resp |-> [resp EXCEPT !.StringAnswer = r.answer]]
          [] q.Type = "PACKET_COUNT" ->
               LET r == answerPacketCount(counted, q, u1, k)
               IN  [o |-> r.o, resp |-> [resp EXCEPT !.FloatAnswer = r.answer]]

\* -------------------------------------- package verification: Verifier

\* HashPath: the first 8 bytes of the SHA-256 of the path name, represented
\* by a fixed mixing function of the name
HashPath(pathName) ==
    CASE pathName = "path_leo_fast" -> 48611
      [] pathName = "path_geo_slow" -> 20357
      [] pathName = "OTHER_PATH" -> 9091
      [] OTHER -> 1

\* NewVerifier(oracle, paths, minDelay, maxJitter).  told is the wiring of
\* the scenario: whether router.OnTransmission hands the records to the
\* verifier too; pending is the position of RunVerification: the queries
\* it has still to ask.
NewVerifier(told) ==
    [Responses |-> <<>>, Contradictions |-> <<>>, PathCommitments |-> <<>>,
     GroundTruth |-> <<>>, nextQueryID |-> 1, ResponseHistory |-> <<>>,
     told |-> told, running |-> FALSE, pending |-> <<>>, TotalQueries |-> 0]

\* a Query about one packet, and one about a path
PacketQuery(type, interval, packetID) ==
    [ID |-> 0, Type |-> type, Interval |-> interval, PacketID |-> packetID, PathName |-> ""]
CountQuery(interval, pathName) ==
    [ID |-> 0, Type |-> "PACKET_COUNT", Interval |-> interval, PacketID |-> 0, PathName |-> pathName]

\* Verifier.InterrogatePacket: its three questions in order
InterrogatePacket(packetID, interval) ==
    <<PacketQuery("SHORTEST_PATH", interval, packetID),
      PacketQuery("DELAY", interval, packetID),
      PacketQuery("PATH_USED", interval, packetID)>>

\* the questions RunVerification asks for one interval, in order
IntervalQueries(interval, packetsPerInterval) ==
    [n \in 1..(3 * packetsPerInterval) |->
        InterrogatePacket((n - 1) \div 3, interval)[((n - 1) % 3) + 1]]
    \o [p \in 1..Len(PathInfos) |-> CountQuery(interval, PathInfos[p].Name)]

\* the questions RunVerification asks, in order
RunQueries(intervals, packetsPerInterval) ==
    IF Len(intervals) = 1 THEN IntervalQueries(intervals[1], packetsPerInterval)
    ELSE IntervalQueries(intervals[1], packetsPerInterval)
         \o IntervalQueries(intervals[2], packetsPerInterval)

\* a Contradiction: its Type, the packet and the QueryID of Response1
LegacyContradiction(type, packetID, resp) ==
    [Type |-> type, PacketID |-> packetID, QueryID |-> resp.QueryID]

\* the index of the last response of the type among the responses, 0 for none
LastOfType(responses, type) ==
    LET found == {i \in 1..Len(responses) : responses[i].Query.Type = type}
    IN  IF found = {} THEN 0 ELSE CHOOSE i \in found : \A j \in found : j <= i

\* the PathInfo with the name, 0 for nil, and the first shortest one
PathNamed(name) ==
    LET found == {i \in 1..Len(PathInfos) : PathInfos[i].Name = name}
    IN  IF found = {} THEN 0 ELSE CHOOSE i \in found : \A j \in found : i <= j
FirstShortest ==
    LET found == {i \in 1..Len(PathInfos) : PathInfos[i].IsShortest}
    IN  IF found = {} THEN 0 ELSE CHOOSE i \in found : \A j \in found : i <= j

\* x if the condition holds, nothing otherwise
When(condition, x) == IF condition THEN <<x>> ELSE <<>>

\* Verifier.checkPacketContradictions: the contradictions it appends
checkPacketContradictions(packetID, responses, truth) ==
    LET s == LastOfType(responses, "SHORTEST_PATH")
        d == LastOfType(responses, "DELAY")
        p == LastOfType(responses, "PATH_USED")
        shortestPathName == IF FirstShortest = 0 THEN "" ELSE PathInfos[FirstShortest].Name
        claimedShortest == responses[s].BoolAnswer
        claimedPath == responses[p].StringAnswer
        claimedDelay == responses[d].FloatAnswer
        info == PathNamed(claimedPath)
        maxOf(i) == PathInfos[i].BaseDelay + VerifierMaxJitter + ExpectedMargin
    IN  IF truth = 0 THEN <<>>
        ELSE When(s # 0 /\ p # 0 /\ claimedShortest /\ claimedPath # shortestPathName
                    /\ claimedPath # "UNKNOWN",
                  LegacyContradiction("PATH_MISMATCH", packetID, responses[s]))
          \o When(s # 0 /\ p # 0 /\ ~claimedShortest /\ claimedPath = shortestPathName
                    /\ claimedPath # "UNKNOWN",
                  LegacyContradiction("PATH_MISMATCH", packetID, responses[s]))
          \o When(d # 0 /\ p # 0 /\ info # 0 /\ claimedDelay < PathInfos[info].BaseDelay - 1,
                  LegacyContradiction("DELAY_TOO_LOW", packetID, responses[d]))
          \o When(d # 0 /\ p # 0 /\ info # 0 /\ claimedDelay > maxOf(info),
                  LegacyContradiction("DELAY_TOO_HIGH", packetID, responses[d]))
          \o When(s # 0 /\ d # 0 /\ claimedShortest /\ FirstShortest # 0
                    /\ (\/ claimedDelay < PathInfos[FirstShortest].BaseDelay - 1
                        \/ claimedDelay > maxOf(FirstShortest)),
                  LegacyContradiction("SHORTEST_PATH_DELAY_INCONSISTENT", packetID, responses[s]))
          \o When(d # 0 /\ claimedDelay < MinPossibleDelay /\ claimedDelay >= 0,
                  LegacyContradiction("PHYSICAL_VIOLATION", packetID, responses[d]))

\* Verifier.checkHashCommitment: the contradictions it appends
checkHashCommitment(v, packetID, responses, truth) ==
    IF truth = 0 \/ packetID \notin DOMAIN v.PathCommitments THEN <<>>
    ELSE LET mismatching ==
                 SelectSeq(responses, LAMBDA resp :
                     /\ resp.Query.Type = "PATH_USED"
                     /\ resp.StringAnswer # "UNKNOWN"
                     /\ HashPath(resp.StringAnswer) # v.PathCommitments[packetID])
         IN  [i \in 1..Len(mismatching) |->
                 LegacyContradiction("HASH_MISMATCH", packetID, mismatching[i])]

\* the contradiction checkCrossIntervalContradictions finds between the
\* responses of (packet, interval) and an earlier response, "" for none
CrossIntervalType(v, packetID, interval, responses, prevResp) ==
    LET s == LastOfType(responses, "SHORTEST_PATH")
        d == LastOfType(responses, "DELAY")
        p == LastOfType(responses, "PATH_USED")
        diff == responses[d].FloatAnswer - prevResp.FloatAnswer
    IN  IF prevResp.Query.Interval = interval THEN ""
        ELSE IF FindRecord(v.GroundTruth, packetID, prevResp.Query.Interval) = 0 THEN ""
        ELSE IF /\ p # 0 /\ prevResp.Query.Type = "PATH_USED"
                /\ responses[p].StringAnswer # "UNKNOWN" /\ prevResp.StringAnswer # "UNKNOWN"
                /\ responses[p].StringAnswer # prevResp.StringAnswer
        THEN "CROSS_INTERVAL_PATH_MISMATCH"
        ELSE IF /\ s # 0 /\ prevResp.Query.Type = "SHORTEST_PATH"
                /\ responses[s].BoolAnswer # prevResp.BoolAnswer
        THEN "CROSS_INTERVAL_SHORTEST_MISMATCH"
        ELSE IF /\ d # 0 /\ prevResp.Query.Type = "DELAY"
                /\ responses[d].FloatAnswer >= 0 /\ prevResp.FloatAnswer >= 0
                /\ (diff >= 10 \/ diff <= -10)
        THEN "CROSS_INTERVAL_DELAY_MISMATCH"
        ELSE ""

\* Verifier.checkCrossIntervalContradictions: the contradictions it appends
checkCrossIntervalContradictions(v, packetID, interval, responses, truth) ==
    IF truth = 0 \/ packetID \notin DOMAIN v.ResponseHistory THEN <<>>
    ELSE LET crossing ==
                 SelectSeq(v.ResponseHistory[packetID], LAMBDA prevResp :
                     CrossIntervalType(v, packetID, interval, responses, prevResp) # "")
         IN  [i \in 1..Len(crossing) |->
                 LegacyContradiction(
                     CrossIntervalType(v, packetID, interval, responses, crossing[i]),
                     packetID, crossing[i])]

\* int(f) of a float64 held in 0.001
IntOf(f) == IF f >= 0 THEN f \div 1000 ELSE -((-f) \div 1000)

\* the number of path-used responses naming the path in the interval
IndividualClaims(responses, pathName, interval) ==
    Cardinality({i \in 1..Len(responses) :
        /\ responses[i].Query.Type = "PATH_USED"
        /\ responses[i].StringAnswer = pathName
        /\ responses[i].Query.Interval = interval})

\* whether the claimed count and the individual claims differ by more than
\* half the individual claims
CountMismatch(claimedCount, individualClaims) ==
    /\ individualClaims > 0
    /\ \/ 2 * (claimedCount - individualClaims) > individualClaims
       \/ 2 * (individualClaims - claimedCount) > individualClaims

\* Verifier.checkAggregateContradictions: the contradictions it appends.
\* The loop skips the responses whose query type is QueryPacketCount.
checkAggregateContradictions(v) ==
    LET mismatching ==
            SelectSeq(v.Responses, LAMBDA countResp :
                /\ countResp.Query.Type # "PACKET_COUNT"
                /\ CountMismatch(IntOf(countResp.FloatAnswer),
                       IndividualClaims(v.Responses, countResp.Query.PathName,
                                        countResp.Query.Interval)))
    IN  [i \in 1..Len(mismatching) |->
            LegacyContradiction("COUNT_MISMATCH", 0, mismatching[i])]

\* the keys of byPacket: the (packet, interval) pairs of the responses
ResponseKeys(v) ==
    {<<v.Responses[i].Query.PacketID, v.Responses[i].Query.Interval>> :
        i \in 1..Len(v.Responses)}

\* what CheckContradictions appends for one key of byPacket
KeyContradictions(v, key) ==
    LET responses == SelectSeq(v.Responses, LAMBDA resp :
                         resp.Query.PacketID = key[1] /\ resp.Query.Interval = key[2])
        truth == FindRecord(v.GroundTruth, key[1], key[2])
    IN  checkPacketContradictions(key[1], responses, truth)
        \o checkHashCommitment(v, key[1], responses, truth)
        \o checkCrossIntervalContradictions(v, key[1], key[2], responses, truth)

\* the contradictions of the keys in the order given
RECURSIVE KeysContradictions(_, _)
KeysContradictions(v, order) ==
    IF order = <<>> THEN <<>>
    ELSE KeyContradictions(v, Head(order)) \o KeysContradictions(v, Tail(order))

\* the orders in which a range over the map byPacket can visit its keys
KeyOrders(keys) ==
    {order \in [1..Cardinality(keys) -> keys] :
        \A i, j \in 1..Cardinality(keys) : order[i] = order[j] => i = j}

\* Verifier.CheckContradictions: the contradictions it can return, one
\* list per order of the keys that contribute any
CheckContradictions(v) ==
    LET contributing == {key \in ResponseKeys(v) : KeyContradictions(v, key) # <<>>}
    IN  {KeysContradictions(v, order) \o checkAggregateContradictions(v) :
            order \in KeyOrders(contributing)}

\* the oracle and the verifier of a scenario before any transmission
VerifierInit ==
    /\ networkOracle \in {NewVerificationOracle(s) : s \in ScenarioStrategies}
    /\ verifier \in {NewVerifier(told) : told \in BOOLEAN}
    /\ verification = NoLog

\* the scenario with the HONEST strategy
HonestVerifierInit ==
    /\ networkOracle = NewVerificationOracle("HONEST")
    /\ verifier \in {NewVerifier(told) : told \in BOOLEAN}
    /\ verification = NoLog

\* router.OnTransmission of the scenario: the oracle records the
\* transmission (RecordTransmission) and, if the verifier is told of it,
\* so does the verifier (RecordGroundTruth).  Packet ids count from 0 and
\* the packets are sent in the order of their ids.
OnTransmission(record) ==
    /\ ~verifier.running /\ verification = NoLog
    /\ Len(networkOracle.GroundTruth) < MaxTransmissions
    /\ record.PacketID = Len(networkOracle.GroundTruth)
    /\ \A i \in 1..Len(networkOracle.GroundTruth) :
          networkOracle.GroundTruth[i].SentTime <= record.SentTime
    /\ networkOracle' = [networkOracle EXCEPT !.GroundTruth = Append(@, record)]
    /\ verifier' = IF verifier.told THEN [verifier EXCEPT !.GroundTruth = Append(@, record)]
                   ELSE verifier
    /\ UNCHANGED verification

\* Verifier.RecordPathCommitment(packetID, pathHash, timestamp) at routing
\* time: the hash of the path the packet took
RecordPathCommitment(i) ==
    /\ ~verifier.running /\ verification = NoLog
    /\ i \in 1..Len(networkOracle.GroundTruth)
    /\ networkOracle.GroundTruth[i].PacketID \notin DOMAIN verifier.PathCommitments
    /\ verifier' = [verifier EXCEPT !.PathCommitments =
           MapSet(@, networkOracle.GroundTruth[i].PacketID,
                  HashPath(networkOracle.GroundTruth[i].PathUsed))]
    /\ UNCHANGED <<networkOracle, verification>>

\* Verifier.RunVerification(intervals, packetsPerInterval, simTime) is
\* entered: the questions it will ask
RunVerificationBegin(intervals, packetsPerInterval) ==
    /\ ~verifier.running /\ verification = NoLog
    /\ Len(networkOracle.GroundTruth) > 0
    /\ verifier' = [verifier EXCEPT !.running = TRUE,
                                    !.pending = RunQueries(intervals, packetsPerInterval),
                                    !.TotalQueries = 0]
    /\ UNCHANGED <<networkOracle, verification>>

\* Verifier.AskQuestion on the next question of RunVerification
AskQuestion(u1, u2, k) ==
    /\ verifier.running /\ verifier.pending # <<>>
    /\ LET q == [Head(verifier.pending) EXCEPT !.ID = verifier.nextQueryID]
           r == Answer(networkOracle, q, u1, u2, k)
       IN  /\ networkOracle' = r.o
           /\ verifier' = [verifier EXCEPT
                  !.nextQueryID = @ + 1,
                  !.Responses = Append(@, r.resp),
                  !.ResponseHistory =
                      IF q.PacketID >= 0
                      THEN MapSet(@, q.PacketID,
                               Append(IF q.PacketID \in DOMAIN @ THEN @[q.PacketID] ELSE <<>>,
                                      r.resp))
                      ELSE @,
                  !.pending = Tail(@),
                  !.TotalQueries = @ + 1]
    /\ UNCHANGED verification

\* RunVerification calls CheckContradictions and returns the
\* VerificationResult
RunVerificationReturn ==
    /\ verifier.running /\ verifier.pending = <<>>
    /\ \E contradictions \in CheckContradictions(verifier) :
          /\ verifier' = [verifier EXCEPT !.running = FALSE,
                                          !.Contradictions = contradictions]
          /\ verification' =
                 [kind |-> "result",
                  TotalQueries |-> verifier.TotalQueries,
                  TotalResponses |-> Len(verifier.Responses),
                  ContradictionsFound |-> Len(contradictions),
                  Trustworthy |-> (Len(contradictions) = 0)]
    /\ UNCHANGED networkOracle

VerifierNext ==
    \/ (\E id \in 0..(MaxTransmissions - 1) : \E record \in Transmissions(id) : OnTransmission(record))
       /\ UNCHANGED <<schedVars, trialVars, oracleVars, detectorVars, beliefVars, delayVars, logVars, loopVars, sampleVars, stepVars>>
    \/ (\E i \in 1..MaxTransmissions : RecordPathCommitment(i))
       /\ UNCHANGED <<schedVars, trialVars, oracleVars, detectorVars, beliefVars, delayVars, logVars, loopVars, sampleVars, stepVars>>
    \/ (\E intervals \in IntervalLists, n \in 1..MaxTransmissions : RunVerificationBegin(intervals, n))
       /\ UNCHANGED <<schedVars, trialVars, oracleVars, detectorVars, beliefVars, delayVars, logVars, loopVars, sampleVars, stepVars>>
    \/ (\E draw \in AnswerDraws : AskQuestion(draw[1], draw[2], draw[3]))
       /\ UNCHANGED <<schedVars, trialVars, oracleVars, detectorVars, beliefVars, delayVars, logVars, loopVars, sampleVars, stepVars>>
    \/ RunVerificationReturn
       /\ UNCHANGED <<schedVars, trialVars, oracleVars, detectorVars, beliefVars, delayVars, logVars, loopVars, sampleVars, stepVars>>

\* the largest delay the verifier expects on the path named
MaxExpectedDelay(pathName) ==
    PathInfos[PathNamed(pathName)].BaseDelay + VerifierMaxJitter + ExpectedMargin

\* C34: once RunVerification has returned, every path-used answer that
\* names a path (not UNKNOWN) for a packet with a recorded commitment and
\* hashes to another value than the commitment has a HASH_MISMATCH
\* contradiction for that packet, and the result is not trustworthy,
\* whether or not the verifier holds a ground-truth record of the packet.
C34_HashMismatchReported ==
    verification # NoLog =>
        \A i \in 1..Len(verifier.Responses) :
            LET resp == verifier.Responses[i]
                packetID == resp.Query.PacketID
            IN  (/\ resp.Query.Type = "PATH_USED"
                 /\ packetID \in DOMAIN verifier.PathCommitments
                 /\ resp.StringAnswer # "UNKNOWN"
                 /\ HashPath(resp.StringAnswer) # verifier.PathCommitments[packetID])
                => /\ ~verification.Trustworthy
                   /\ \E c \in 1..Len(verifier.Contradictions) :
                         /\ verifier.Contradictions[c].Type = "HASH_MISMATCH"
                         /\ verifier.Contradictions[c].PacketID = packetID

\* whether every transmission recorded has a delay of at least the base
\* delay of its path and the physical minimum
DelaysAtLeastMinimum ==
    \A i \in 1..Len(networkOracle.GroundTruth) :
        LET record == networkOracle.GroundTruth[i]
        IN  /\ record.ActualDelay >= PathInfos[PathNamed(record.PathUsed)].BaseDelay
            /\ record.ActualDelay >= MinPossibleDelay

\* whether no transmission recorded has a delay above the largest the
\* verifier expects on its path
DelaysAtMostExpected ==
    \A i \in 1..Len(networkOracle.GroundTruth) :
        networkOracle.GroundTruth[i].ActualDelay
            <= MaxExpectedDelay(networkOracle.GroundTruth[i].PathUsed)

AnswerContradictions ==
    {"PATH_MISMATCH", "DELAY_TOO_LOW", "DELAY_TOO_HIGH", "SHORTEST_PATH_DELAY_INCONSISTENT"}

\* C37: under the SMART strategy, for every packet whose true delay is
\* between the base delay and the largest expected delay of its true path,
\* the answers to the shortest-path, delay and path-used questions of
\* RunVerification produce no path-mismatch and no delay contradiction.
C37_SmartIsConsistent ==
    (verification # NoLog /\ networkOracle.Strategy = "SMART"
        /\ DelaysAtLeastMinimum /\ DelaysAtMostExpected)
    => \A c \in 1..Len(verifier.Contradictions) :
           verifier.Contradictions[c].Type \notin AnswerContradictions

\* C38: once RunVerification has returned, every packet-count answer that
\* differs from the number of path-used answers naming that path in that
\* interval by more than the margin (half that number) has a
\* COUNT_MISMATCH contradiction.
C38_CountMismatchReported ==
    verification # NoLog =>
        \A i \in 1..Len(verifier.Responses) :
            LET countResp == verifier.Responses[i]
            IN  (/\ countResp.Query.Type = "PACKET_COUNT"
                 /\ CountMismatch(IntOf(countResp.FloatAnswer),
                        IndividualClaims(verifier.Responses, countResp.Query.PathName,
                                         countResp.Query.Interval)))
                => \E c \in 1..Len(verifier.Contradictions) :
                      /\ verifier.Contradictions[c].Type = "COUNT_MISMATCH"
                      /\ verifier.Contradictions[c].QueryID = countResp.QueryID

\* C36: the commitment map holds the last response given to each
\* normalised query: when ProcessResponse reports a commitment violation
\* for a re-query, the response stored under the query's key afterwards is
\* the one just given.
C36_LastResponseStored ==
    [][(/\ processed' = processed + 1
        /\ lastCall'.kind = "response"
        /\ \E i \in 1..Len(lastCall'.new) : lastCall'.new[i].Type = "COMMITMENT_VIOLATION")
       => ResponseHistory'[queryHash(lastCall'.query)] = lastCall'.answer]_vars

\* ------------------------------- lying strategies against the detector

\* the answering strategies that lie from fixed values
FixedValueStrategies == {"AnswerClaimLowerObserved", "AnswerConsistent"}

\* NewStrategicOracle(flagStrat, AnswerClaimLowerObserved or
\* AnswerConsistent, ...) after the simulation
FixedValueOracleInit ==
    /\ OracleInit
    /\ AnsweringStrat \in FixedValueStrategies

\* The first two steps of one round of the execution loop: ask the oracle
\* the comparison and feed the query and the response to the detector.
\* A query about a packet the oracle has no record of is answered
\* PacketsEqual and not stored.
AskAndCheck(q) ==
    /\ AnswerComparison(q.PacketID, q.PacketID2)
    /\ LET key == HistoryKey(q.PacketID, q.PacketID2)
           reverseKey == HistoryKey(q.PacketID2, q.PacketID)
           r == IF key \in DOMAIN comparisonHistory'
                THEN comparisonHistory'[key]
                ELSE IF reverseKey \in DOMAIN comparisonHistory'
                THEN ReverseComparison(comparisonHistory'[reverseKey])
                ELSE "PacketsEqual"
       IN  ProcessResponse(q, r, "nil")

FixedValueNext ==
    \/ OracleFlagPackets
       /\ UNCHANGED <<schedVars, trialVars, detectorVars, beliefVars, delayVars, logVars, otherVars>>
    \/ (\E p \in AskPairs : AskAndCheck(CompareQuery(p[1], p[2])))
       /\ UNCHANGED <<schedVars, trialVars, beliefVars, delayVars, logVars, otherVars>>

\* C39: under ClaimLowerObserved and Consistent, whatever the ground truth,
\* the flags and the Compare queries asked (repeated and reversed pairs
\* included), no packet is reachable from itself along the strict answers
\* given and the detector holds no transitivity contradiction.
C39_StrictAnswersAcyclic ==
    AnsweringStrat \in FixedValueStrategies =>
        /\ \A n \in QueryIds :
              n \notin ReachableFrom(graph, {e[2] : e \in {x \in graph : x[1] = n}})
        /\ \A i \in 1..Len(Contradictions) :
              Contradictions[i].Type # "TRANSITIVITY_VIOLATION"

\* C39 witness: the Consistent oracle has flagged packets and lied, its
\* strict answers form a chain over three packets, and a pair was asked
\* again in reverse.
C39_Witness ==
    /\ AnsweringStrat = "AnswerConsistent"
    /\ flaggedPackets # {}
    /\ LiesTold > 0
    /\ Cardinality(graph) = 2
    /\ \E a, b, c \in DetectorIds : <<a, b>> \in graph /\ <<b, c>> \in graph
    /\ processed = 3
    /\ Cardinality(DOMAIN comparisonHistory) = 2

InitTrial == TrialInit /\ OracleIdle /\ DetectorInit /\ BeliefIdle /\ DelayIdle /\ LogIdle /\ OtherIdle
SpecTrial == InitTrial /\ [][TrialNext]_vars

InitOracle == SchedInit /\ TrialIdle /\ OracleInit /\ DetectorInit /\ BeliefIdle /\ DelayIdle /\ LogIdle /\ OtherIdle
SpecOracle == InitOracle /\ [][OracleNext]_vars

InitDetector == SchedInit /\ TrialIdle /\ OracleIdle /\ DetectorInit /\ BeliefIdle /\ DelayIdle /\ LogIdle /\ OtherIdle
SpecDetector == InitDetector /\ [][DetectorNext]_vars

InitQueries == SchedInit /\ TrialIdle /\ OracleIdle /\ DetectorInit /\ BeliefIdle /\ DelayIdle /\ LogIdle /\ OtherIdle
SpecQueries == InitQueries /\ [][QueriesNext]_vars

InitPhysical == SchedInit /\ TrialIdle /\ OracleIdle /\ DetectorInit /\ BeliefIdle /\ DelayIdle /\ LogIdle /\ OtherIdle
SpecPhysical == InitPhysical /\ [][PhysicalNext]_vars

InitBelief == SchedInit /\ TrialIdle /\ OracleIdle /\ DetectorInit /\ BeliefInit /\ DelayIdle /\ LogIdle /\ OtherIdle
SpecBelief == InitBelief /\ [][BeliefNext]_vars

InitHonest == SchedInit /\ TrialIdle /\ HonestOracleInit /\ DetectorInit /\ BeliefInit /\ DelayIdle /\ LogIdle /\ OtherIdle
SpecHonest == InitHonest /\ [][HonestNext]_vars

InitAnswers == SchedInit /\ TrialIdle /\ AskedOracleInit /\ DetectorInit /\ BeliefIdle /\ DelayIdle /\ LogIdle /\ OtherIdle
SpecAnswers == InitAnswers /\ [][AnswersNext]_vars

InitRecords == SchedInit /\ TrialIdle /\ RecordsOracleInit /\ DetectorInit
                   /\ BeliefIdle /\ DelayIdle /\ LogIdle /\ OtherIdle
SpecRecords == InitRecords /\ [][RecordsNext]_vars

InitVerifications == SchedInit /\ TrialIdle /\ OracleIdle /\ DetectorInit /\ BeliefIdle /\ DelayIdle /\ LogIdle /\ OtherIdle
SpecVerifications == InitVerifications /\ [][VerificationsNext]_vars

InitCycles == SchedInit /\ TrialIdle /\ OracleIdle /\ DetectorInit /\ BeliefIdle /\ DelayIdle /\ LogIdle /\ OtherIdle
SpecCycles == InitCycles /\ [][CyclesNext]_vars

InitNumeric == SchedInit /\ TrialIdle /\ OracleIdle /\ DetectorInit /\ BeliefInit /\ DelayIdle /\ LogIdle /\ OtherIdle
SpecNumeric == InitNumeric /\ [][NumericNext]_vars

InitLoop == SchedInit /\ TrialIdle /\ HonestOracleInit /\ DetectorInit /\ BeliefInit /\ DelayIdle /\ LogIdle /\ LoopInit /\ SampleIdle /\ VerifierIdle /\ StepsIdle
SpecLoop == InitLoop /\ [][LoopNext]_vars

InitSample == SchedInit /\ TrialIdle /\ SampledOracleInit /\ DetectorInit /\ BeliefIdle /\ DelayIdle /\ LogIdle /\ LoopIdle /\ SampleInit /\ VerifierIdle /\ StepsIdle
SpecSample == InitSample /\ [][SampleNext]_vars

InitVerifier == SchedInit /\ TrialIdle /\ OracleIdle /\ DetectorInit /\ BeliefIdle /\ DelayIdle /\ LogIdle /\ LoopIdle /\ SampleIdle /\ VerifierInit /\ StepsIdle
SpecVerifier == InitVerifier /\ [][VerifierNext]_vars

InitHonestVerifier == SchedInit /\ TrialIdle /\ OracleIdle /\ DetectorInit /\ BeliefIdle /\ DelayIdle /\ LogIdle /\ LoopIdle /\ SampleIdle /\ HonestVerifierInit /\ StepsIdle
SpecHonestVerifier == InitHonestVerifier /\ [][VerifierNext]_vars

InitFixedValue == SchedInit /\ TrialIdle /\ FixedValueOracleInit /\ DetectorInit /\ BeliefIdle /\ DelayIdle /\ LogIdle /\ OtherIdle
SpecFixedValue == InitFixedValue /\ [][FixedValueNext]_vars

InitDelay == SchedInit /\ TrialIdle /\ OracleIdle /\ DetectorInit /\ BeliefIdle /\ DelayInit /\ LogIdle /\ OtherIdle
SpecDelay == InitDelay /\ [][DelayNext]_vars

InitSteps == SchedInit /\ TrialIdle /\ OracleIdle /\ DetectorInit /\ BeliefIdle /\ DelayIdle /\ LogIdle /\ OtherIdle
SpecSteps == InitSteps /\ [][StepsNext]_vars

Init == SchedInit /\ TrialIdle /\ OracleIdle /\ DetectorInit /\ BeliefIdle /\ DelayIdle /\ LogIdle /\ OtherIdle
Next == SchedNext
Spec == Init /\ [][Next]_vars

====
